---- MODULE Spec2Model ----
(***************************************************************************)
(* Model of the CAN log tooling of esp32-4runner-canbus:                   *)
(*   analysis/bin_to_csv.py      capture container -> CSV converter        *)
(*   scripts/decode_with_obdb.py signal registry and bit-field decoder     *)
(*                                                                         *)
(* Python integers are unbounded.  Values that can exceed 31 bits (u32,    *)
(* u64 fields, extracted bit slices of up to 64 bits) are modelled as      *)
(* "Big" naturals: little-endian sequences of base-65536 limbs without     *)
(* leading zero limbs, so that equal numbers are equal sequences.          *)
(***************************************************************************)
EXTENDS Integers, Sequences, FiniteSets, TLC

VARIABLES
    \* ---- parse_header applied to one input (bin_to_csv.py)
    hdr_data,        \* the bytes handed to parse_header
    hdr_pc,          \* "call" | "returned" | "raised"
    hdr_result       \* the returned dict, or the ValueError message

VARIABLES
    \* ---- convert_file(input_path, output_path) (bin_to_csv.py)
    cv_file,         \* the bytes of the input file
    cv_pos,          \* read position of src
    cv_pc,           \* "open" | "loop" | "returned" | "raised"
    cv_header,       \* header, the dict parse_header returned
    cv_dst,          \* the lines of the output file
    cv_leftover,     \* leftover
    cv_written,      \* records_written
    cv_cache,        \* datetime_cache
    cv_buflen,       \* len(data) of the last loop iteration
    cv_joined,       \* the last iteration unpacked a record begun in leftover
    cv_recs,         \* the 24-byte slices unpacked so far, in order
    cv_stderr,       \* the trailing-byte counts of the warnings printed
    cv_ret           \* the value returned, or the exception raised

VARIABLES
    \* ---- OBDbDecoder.extract_bits applied to one input (decode_with_obdb.py)
    eb_data,         \* data_bytes
    eb_bix,          \* bix
    eb_length,       \* length
    eb_signed,       \* signed
    eb_pc,           \* "call" | "returned"
    eb_result        \* the value returned

VARIABLES
    \* ---- OBDbDecoder.decode_signal applied to one input
    sg_data,         \* data_bytes
    sg_def,          \* signal_def, a dict
    sg_pc,           \* "call" | "returned" | "raised"
    sg_raw,          \* what extract_bits returned inside the call
    sg_result        \* the value returned, or the exception raised

VARIABLES
    \* ---- OBDbDecoder.__init__: the two tiers and the merged registry
    rg_file,            \* the OBDb JSON file at self.obdb_path
    rg_pc,              \* "load" | "build" | "merge" | "ready"
    manual_can_ids,     \* self.manual_can_ids
    obdb_data,          \* self.obdb_data
    obdb_can_ids,       \* self.obdb_can_ids
    signal_definitions  \* self.signal_definitions

VARIABLES
    \* ---- OBDbDecoder.decode_message(can_id, data_bytes)
    dm_can_id,       \* can_id
    dm_data,         \* data_bytes
    dm_pc,           \* "call" | "loop" | "returned" | "raised"
    dm_i,            \* definitions of can_def['signals'] the loop has visited
    dm_decoded,      \* decoded
    dm_ret           \* the value returned, or the exception raised

VARIABLES
    \* ---- format_datetime called repeatedly on one cache (bin_to_csv.py)
    fd_args,           \* the arguments of the last call
    fd_cache,          \* cache
    fd_calls,          \* calls made so far
    fd_pc,             \* "ready" between calls
    fd_ret,            \* the string the last call returned
    fd_hit             \* the last call returned a cached string

VARIABLES
    \* ---- OBDbDecoder.analyze() on a binary log (decode_with_obdb.py)
    an_suffix,         \* self.log_file.suffix, as characters
    an_exists,         \* self.log_file.exists()
    an_bytes,          \* the bytes of the file
    an_pos,            \* read position of f
    an_pc,             \* "call", "bin", "returned"
    messages_by_id,    \* self.messages_by_id
    an_frames,         \* the frames parse_bin_records yielded, in order
    an_stdout,         \* the kinds of the lines printed
    an_ret             \* the value returned

VARIABLES
    \* ---- convert_csv_to_bin.convert: one conversion of a CSV file to compact records
    cb_rows,           \* the rows csv.DictReader yields for the input file
    cb_i,              \* number of rows the loop has consumed
    f_out,             \* the bytes written to the output file
    written,           \* records written
    cb_pc,             \* "loop", "returned" or "raised" (struct.error left convert)
    cb_stdout          \* lines printed

VARIABLES
    \* ---- validate_can.CANValidator: one validation of a log file
    va_file,           \* the log file: exists, suffix, and its bytes, rows or lines
    va_pos,            \* records, rows or lines consumed
    va_pc,             \* "call", "bin", "csv", "text" or "returned"
    messages,          \* self.messages
    stats,             \* self.stats
    va_ret,            \* what validate returned
    va_stdout          \* lines printed

VARIABLES
    \* ---- the six parsers of the two tools, each applied to one record, row or line
    ig_input,          \* the input: a 19-byte chunk, a csv.DictReader row or a text line
    ig_tool,           \* "decoder" or "validator", once a parser ran
    ig_pc,             \* "input", then "parsed"
    ig_result          \* what the parser gave: a frame, nothing, or an exception

VARIABLES
    \* ---- a header or record encoded with the program's layout and decoded again
    rt_value,          \* the fields to encode, tagged "header", "capture" or "compact"
    rt_bytes,          \* the encoded bytes
    rt_decoded,        \* what the decoder returned
    rt_pc              \* "fields", "encoded" or "decoded"

VARIABLES
    \* ---- bin_to_csv.py: main, from the parsed arguments to the exit code
    mn_is_file,        \* os.path.isfile(input_path)
    mn_file,           \* the bytes of the input file
    mn_pc,             \* "start", "converting" or "exited"
    mn_ret,            \* the value main returns, the exit code
    mn_out             \* what main printed: <<stream, message>>

VARIABLES
    \* ---- decode_with_obdb.py and validate_can.py: main, from sys.argv to the exit code
    ep_tool,           \* "decode" or "validate"
    ep_argc,           \* len(sys.argv)
    ep_log,            \* the file at sys.argv[1]: exists, suffix and content
    ep_pc,             \* "start", "running" or "exited"
    ep_exit            \* the exit code of the process

VARIABLES
    \* ---- bin_to_csv.py: the buffer lengths of the chunked record loop on large files
    bf_size,           \* length of the record stream after the header
    bf_pos,            \* bytes of the stream read so far
    bf_leftover,       \* len(leftover)
    bf_data,           \* len(data) of the last iteration
    bf_pc              \* "loop" or "done"

VARIABLES
    \* ---- decode_with_obdb.py: analyze on a text file, which may be the CSV that bin_to_csv.py wrote
    tx_source,         \* the input: a capture file to convert first, or a text file
    tx_file,           \* the text file analyze reads: first line, rows and lines
    tx_records,        \* the capture records the converter wrote rows for
    tx_pos,            \* rows or lines consumed
    tx_pc,             \* "capture", "call", "csv", "text", "returned" or "raised"
    tx_path,           \* the branch analyze took: "csv" or "text"
    tx_frames          \* the frames stored, in order

VARIABLES
    \* ---- decode_with_obdb.py: merge_signal_definitions called again on a built registry
    mg_runs,           \* calls of merge_signal_definitions after the one of __init__
    mg_before          \* the two tiers and the registry as they were before the last of these calls

hdrVars == <<hdr_data, hdr_pc, hdr_result>>

sgVars == <<sg_data, sg_def, sg_pc, sg_raw, sg_result>>

ebVars == <<eb_data, eb_bix, eb_length, eb_signed, eb_pc, eb_result>>

cvVars == <<cv_file, cv_pos, cv_pc, cv_header, cv_dst, cv_leftover, cv_written,
            cv_cache, cv_buflen, cv_joined, cv_recs, cv_stderr, cv_ret>>

rgVars == <<rg_file, rg_pc, manual_can_ids, obdb_data, obdb_can_ids, signal_definitions>>

dmVars == <<dm_can_id, dm_data, dm_pc, dm_i, dm_decoded, dm_ret>>

fdVars == <<fd_args, fd_cache, fd_calls, fd_pc, fd_ret, fd_hit>>

anVars == <<an_suffix, an_exists, an_bytes, an_pos, an_pc, messages_by_id, an_frames, an_stdout, an_ret>>

cbVars == <<cb_rows, cb_i, f_out, written, cb_pc, cb_stdout>>

vaVars == <<va_file, va_pos, va_pc, messages, stats, va_ret, va_stdout>>

igVars == <<ig_input, ig_tool, ig_pc, ig_result>>

rtVars == <<rt_value, rt_bytes, rt_decoded, rt_pc>>

mnVars == <<mn_is_file, mn_file, mn_pc, mn_ret, mn_out>>

epVars == <<ep_tool, ep_argc, ep_log, ep_pc, ep_exit>>

bfVars == <<bf_size, bf_pos, bf_leftover, bf_data, bf_pc>>

txVars == <<tx_source, tx_file, tx_records, tx_pos, tx_pc, tx_path, tx_frames>>

mgVars == <<mg_runs, mg_before>>

vars == <<hdrVars, cvVars, ebVars, sgVars, rgVars, dmVars, fdVars, anVars, cbVars, vaVars, igVars, rtVars, mnVars, epVars, bfVars, txVars, mgVars>>

(***************************************************************************)
(* Each specification below runs one part of the program; the variables    *)
(* of the other parts stay at these values.                                *)
(***************************************************************************)
HdrIdle ==
    /\ hdr_data = <<>>
    /\ hdr_pc = "idle"
    /\ hdr_result = <<>>

CvIdle ==
    /\ cv_file = <<>>
    /\ cv_pos = 0
    /\ cv_pc = "idle"
    /\ cv_header = <<>>
    /\ cv_dst = <<>>
    /\ cv_leftover = <<>>
    /\ cv_written = 0
    /\ cv_cache = <<>>
    /\ cv_buflen = 0
    /\ cv_joined = FALSE
    /\ cv_recs = <<>>
    /\ cv_stderr = <<>>
    /\ cv_ret = <<>>

EbIdle ==
    /\ eb_data = <<>>
    /\ eb_bix = 0
    /\ eb_length = 0
    /\ eb_signed = FALSE
    /\ eb_pc = "idle"
    /\ eb_result = <<>>

SgIdle ==
    /\ sg_data = <<>>
    /\ sg_def = <<>>
    /\ sg_pc = "idle"
    /\ sg_raw = <<>>
    /\ sg_result = <<>>

RgIdle ==
    /\ rg_file = <<>>
    /\ rg_pc = "idle"
    /\ manual_can_ids = <<>>
    /\ obdb_data = <<>>
    /\ obdb_can_ids = <<>>
    /\ signal_definitions = <<>>

DmIdle ==
    /\ dm_can_id = 0
    /\ dm_data = <<>>
    /\ dm_pc = "idle"
    /\ dm_i = 0
    /\ dm_decoded = <<>>
    /\ dm_ret = <<>>

FdIdle ==
    /\ fd_args = <<>>
    /\ fd_cache = <<>>
    /\ fd_calls = 0
    /\ fd_pc = "idle"
    /\ fd_ret = ""
    /\ fd_hit = FALSE

AnIdle ==
    /\ an_suffix = <<>>
    /\ an_exists = FALSE
    /\ an_bytes = <<>>
    /\ an_pos = 0
    /\ an_pc = "idle"
    /\ messages_by_id = <<>>
    /\ an_frames = <<>>
    /\ an_stdout = <<>>
    /\ an_ret = <<>>

CbIdle ==
    /\ cb_rows = <<>>
    /\ cb_i = 0
    /\ f_out = <<>>
    /\ written = 0
    /\ cb_pc = "idle"
    /\ cb_stdout = <<>>

VaIdle ==
    /\ va_file = <<>>
    /\ va_pos = 0
    /\ va_pc = "idle"
    /\ messages = <<>>
    /\ stats = <<>>
    /\ va_ret = <<>>
    /\ va_stdout = <<>>

IgIdle ==
    /\ ig_input = <<>>
    /\ ig_tool = "none"
    /\ ig_pc = "idle"
    /\ ig_result = <<>>

RtIdle ==
    /\ rt_value = <<>>
    /\ rt_bytes = <<>>
    /\ rt_decoded = <<>>
    /\ rt_pc = "idle"

MnIdle ==
    /\ mn_is_file = FALSE
    /\ mn_file = <<>>
    /\ mn_pc = "idle"
    /\ mn_ret = <<>>
    /\ mn_out = <<>>

EpIdle ==
    /\ ep_tool = ""
    /\ ep_argc = 0
    /\ ep_log = <<>>
    /\ ep_pc = "idle"
    /\ ep_exit = <<>>

BfIdle ==
    /\ bf_size = 0
    /\ bf_pos = 0
    /\ bf_leftover = 0
    /\ bf_data = 0
    /\ bf_pc = "idle"

TxIdle ==
    /\ tx_source = <<>>
    /\ tx_file = <<>>
    /\ tx_records = <<>>
    /\ tx_pos = 0
    /\ tx_pc = "idle"
    /\ tx_path = ""
    /\ tx_frames = <<>>

MgIdle ==
    /\ mg_runs = 0
    /\ mg_before = <<>>

(***************************************************************************)
(* Generic helpers                                                         *)
(***************************************************************************)
Byte == 0..255

RECURSIVE Pow2(_)
Pow2(n) == IF n = 0 THEN 1 ELSE 2 * Pow2(n - 1)

RECURSIVE SumSeq(_)
SumSeq(s) == IF s = <<>> THEN 0 ELSE Head(s) + SumSeq(Tail(s))

RECURSIVE Repeat(_, _)
Repeat(x, n) == IF n = 0 THEN <<>> ELSE <<x>> \o Repeat(x, n - 1)

\* Python slice s[a:b] for 0 <= a, 0 <= b (0-based, end exclusive, clipped)
Slice(s, a, b) ==
    LET hi == IF b > Len(s) THEN Len(s) ELSE b
    IN  IF a >= hi THEN <<>> ELSE SubSeq(s, a + 1, hi)

\* Python slice s[:n] for any integer n (a negative n counts from the end)
SliceTo(s, n) == IF n >= 0 THEN Slice(s, 0, n) ELSE Slice(s, 0, Len(s) + n)

(***************************************************************************)
(* Big naturals (Python int)                                               *)
(***************************************************************************)
LimbBase == 256 * 256

RECURSIVE BigNorm(_)
BigNorm(limbs) ==
    IF limbs = <<>> THEN <<>>
    ELSE IF limbs[Len(limbs)] = 0 THEN BigNorm(SubSeq(limbs, 1, Len(limbs) - 1))
    ELSE limbs

BigOf(n) ==
    BigNorm(<<n % LimbBase, n \div LimbBase>>)

\* struct.unpack of a little-endian unsigned field occupying the bytes bs
LittleEndian(bs) ==
    BigNorm([k \in 1..((Len(bs) + 1) \div 2) |->
                bs[2 * k - 1] + 256 * (IF 2 * k <= Len(bs) THEN bs[2 * k] ELSE 0)])

\* struct.pack of a Big into w little-endian bytes (w even)
PackLittleEndian(big, w) ==
    [i \in 1..w |->
        LET k    == (i + 1) \div 2
            limb == IF k <= Len(big) THEN big[k] ELSE 0
        IN  IF i % 2 = 1 THEN limb % 256 ELSE limb \div 256]

Limb(a, i) == IF i <= Len(a) THEN a[i] ELSE 0

RECURSIVE BigAddFrom(_, _, _, _)
BigAddFrom(a, b, i, carry) ==
    IF i > Len(a) /\ i > Len(b)
    THEN IF carry = 0 THEN <<>> ELSE <<carry>>
    ELSE LET t == Limb(a, i) + Limb(b, i) + carry
         IN  <<t % LimbBase>> \o BigAddFrom(a, b, i + 1, t \div LimbBase)

\* a + b
BigAdd(a, b) == BigNorm(BigAddFrom(a, b, 1, 0))

RECURSIVE BigSubFrom(_, _, _, _)
BigSubFrom(a, b, i, borrow) ==
    IF i > Len(a) THEN <<>>
    ELSE LET t == Limb(a, i) - Limb(b, i) - borrow
         IN  IF t < 0
             THEN <<t + LimbBase>> \o BigSubFrom(a, b, i + 1, 1)
             ELSE <<t>> \o BigSubFrom(a, b, i + 1, 0)

\* a - b for a >= b
BigSub(a, b) == BigNorm(BigSubFrom(a, b, 1, 0))

RECURSIVE BigLessFrom(_, _, _)
BigLessFrom(a, b, i) ==
    IF i = 0 THEN FALSE
    ELSE IF a[i] # b[i] THEN a[i] < b[i]
    ELSE BigLessFrom(a, b, i - 1)

\* a < b
BigLess(a, b) ==
    IF Len(a) # Len(b) THEN Len(a) < Len(b) ELSE BigLessFrom(a, b, Len(a))

RECURSIVE BigDivFrom(_, _, _, _)
BigDivFrom(a, d, i, r) ==
    IF i = 0 THEN [q |-> <<>>, r |-> r]
    ELSE LET cur  == r * LimbBase + a[i]
             rest == BigDivFrom(a, d, i - 1, cur % d)
         IN  [q |-> Append(rest.q, cur \div d), r |-> rest.r]

\* a // d and a % d for a small divisor 0 < d < 2^15
BigDiv(a, d) == BigNorm(BigDivFrom(a, d, Len(a), 0).q)
BigMod(a, d) == BigDivFrom(a, d, Len(a), 0).r

DecDigit(d) == <<"0", "1", "2", "3", "4", "5", "6", "7", "8", "9">>[d + 1]
HexDigit(d) ==
    <<"0", "1", "2", "3", "4", "5", "6", "7", "8", "9", "A", "B", "C", "D", "E", "F">>[d + 1]

RECURSIVE BigDigits(_, _)
\* the digits of a in base d, most significant first; <<>> for zero
BigDigits(a, d) ==
    IF a = <<>> THEN <<>>
    ELSE LET qr == BigDivFrom(a, d, Len(a), 0)
         IN  Append(BigDigits(BigNorm(qr.q), d), qr.r)

RECURSIVE IntDigits(_, _)
\* the same for a small non-negative integer
IntDigits(n, d) ==
    IF n = 0 THEN <<>> ELSE Append(IntDigits(n \div d, d), n % d)

RECURSIVE JoinDigits(_, _)
JoinDigits(ds, base) ==
    IF ds = <<>> THEN ""
    ELSE (IF base = 16 THEN HexDigit(Head(ds)) ELSE DecDigit(Head(ds)))
         \o JoinDigits(Tail(ds), base)

\* str(n) for a Big and for a small integer
Str(a) == IF a = <<>> THEN "0" ELSE JoinDigits(BigDigits(a, 10), 10)
StrInt(n) == IF n = 0 THEN "0" ELSE JoinDigits(IntDigits(n, 10), 10)

ZeroPad(ds, w) == Repeat(0, IF Len(ds) < w THEN w - Len(ds) ELSE 0) \o ds

\* f"{n:0wX}": uppercase hex, zero padded to at least w digits
HexPad(a, w) == JoinDigits(ZeroPad(BigDigits(a, 16), w), 16)
HexPadInt(n, w) == JoinDigits(ZeroPad(IntDigits(n, 16), w), 16)

(***************************************************************************)
(* bin_to_csv.py: constants and struct layouts                             *)
(***************************************************************************)
HEADER_SIZE == 64
RECORD_SIZE == 24
VERSION == 1
MAGIC_PREFIX == <<67, 65, 78, 66, 73, 78, 0>>          \* b"CANBIN\x00"

\* "<8sHHQQII28s": the byte widths of the fields, no padding ("<")
HEADER_FMT == <<8, 2, 2, 8, 8, 4, 4, 28>>
\* can_id taken as a 16-bit field
RECORD_FMT_ShortId == <<8, 2, 1, 1, 8, 2>>

\* "<QIBB8sH"
RECORD_FMT == <<8, 4, 1, 1, 8, 2>>

\* struct.calcsize
CalcSize(fmt) == SumSeq(fmt)

\* the bytes of field k (1-based) of a buffer laid out as fmt
Field(fmt, buf, k) ==
    LET off == SumSeq(SubSeq(fmt, 1, k - 1))
    IN  SubSeq(buf, off + 1, off + fmt[k])

\* a comparison of the whole 8-byte magic with prefix + NUL
StartsWith_WholeMagic(s, prefix) ==
    s = prefix \o <<0>>

\* bytes.startswith
StartsWith(s, prefix) ==
    /\ Len(s) >= Len(prefix)
    /\ SubSeq(s, 1, Len(prefix)) = prefix

Raise(msg) == [ok |-> FALSE, error |-> msg]

parse_header(data) ==
    IF Len(data) < HEADER_SIZE THEN Raise("File too small for header")
    ELSE
    LET buf               == Slice(data, 0, HEADER_SIZE)
        magic             == Field(HEADER_FMT, buf, 1)
        version           == LittleEndian(Field(HEADER_FMT, buf, 2))
        header_size       == LittleEndian(Field(HEADER_FMT, buf, 3))
        log_start_unix_us == LittleEndian(Field(HEADER_FMT, buf, 4))
        log_start_mono_us == LittleEndian(Field(HEADER_FMT, buf, 5))
        record_size       == LittleEndian(Field(HEADER_FMT, buf, 6))
        flags             == LittleEndian(Field(HEADER_FMT, buf, 7))
    IN  IF ~StartsWith(magic, MAGIC_PREFIX) THEN Raise("Bad magic")
        ELSE IF version # BigOf(VERSION) THEN Raise("Unsupported version")
        ELSE IF header_size # BigOf(HEADER_SIZE) THEN Raise("Unexpected header size")
        ELSE IF record_size # BigOf(RECORD_SIZE) THEN Raise("Unexpected record size")
        ELSE [ok |-> TRUE,
              log_start_unix_us      |-> log_start_unix_us,
              log_start_monotonic_us |-> log_start_mono_us,
              flags                  |-> flags]

(***************************************************************************)
(* Inputs for parse_header: a header assembled field by field from sample  *)
(* byte patterns, then cut or extended to a sample length.                 *)
(***************************************************************************)
GoodMagic == MAGIC_PREFIX \o <<0>>

MagicSamples ==
    { GoodMagic,
      MAGIC_PREFIX \o <<65>>,                     \* 8th byte is free
      <<99>> \o SubSeq(GoodMagic, 2, 8),          \* first byte differs
      SubSeq(GoodMagic, 1, 5) \o <<79, 0, 0>>,    \* sixth byte differs
      SubSeq(GoodMagic, 1, 6) \o <<1, 0>> }       \* seventh byte differs

VersionSamples    == { <<1, 0>>, <<0, 1>>, <<2, 0>> }
HeaderSizeSamples == { <<64, 0>>, <<0, 64>>, <<64, 1>> }
UnixSamples       == { Repeat(0, 8), <<0, 64, 30, 24, 36, 10, 6, 0>> }
MonoSamples       == { <<32, 161, 7, 0, 0, 0, 0, 0>>, Repeat(255, 8) }
RecordSizeSamples == { <<24, 0, 0, 0>>, <<0, 0, 0, 24>>, <<19, 0, 0, 0>>, <<24, 0, 1, 0>> }
FlagsSamples      == { Repeat(0, 4), <<1, 2, 3, 132>> }
ReservedSamples   == { Repeat(0, 28), Repeat(7, 28) }
HeaderLenSamples  == { 0, 35, 63, 64, 70 }

HeaderBytes(magic, ver, hs, unix, mono, rs, fl, res) ==
    magic \o ver \o hs \o unix \o mono \o rs \o fl \o res

HeaderInputs ==
    { Slice(HeaderBytes(m, v, hs, u, mo, rs, fl, res) \o <<9, 9, 9, 9, 9, 9>>, 0, n) :
        m \in MagicSamples, v \in VersionSamples, hs \in HeaderSizeSamples,
        u \in UnixSamples, mo \in MonoSamples, rs \in RecordSizeSamples,
        fl \in FlagsSamples, res \in ReservedSamples, n \in HeaderLenSamples }

HdrInit ==
    /\ hdr_data \in HeaderInputs
    /\ hdr_pc = "call"
    /\ hdr_result = <<>>
    /\ CvIdle
    /\ EbIdle
    /\ SgIdle
    /\ RgIdle
    /\ DmIdle
    /\ FdIdle
    /\ AnIdle
    /\ CbIdle
    /\ VaIdle
    /\ IgIdle
    /\ RtIdle
    /\ MnIdle
    /\ EpIdle
    /\ BfIdle
    /\ TxIdle
    /\ MgIdle

\* parse_header(hdr_data) returns
ParseHeaderReturn ==
    /\ hdr_pc = "call"
    /\ parse_header(hdr_data).ok
    /\ hdr_result' = parse_header(hdr_data)
    /\ hdr_pc' = "returned"
    /\ UNCHANGED <<hdr_data, cvVars, ebVars, sgVars, rgVars, dmVars, fdVars, anVars, cbVars, vaVars, igVars, rtVars, mnVars, epVars, bfVars, txVars, mgVars>>

\* parse_header(hdr_data) raises ValueError
ParseHeaderRaise ==
    /\ hdr_pc = "call"
    /\ ~parse_header(hdr_data).ok
    /\ hdr_result' = parse_header(hdr_data)
    /\ hdr_pc' = "raised"
    /\ UNCHANGED <<hdr_data, cvVars, ebVars, sgVars, rgVars, dmVars, fdVars, anVars, cbVars, vaVars, igVars, rtVars, mnVars, epVars, bfVars, txVars, mgVars>>

HdrNext == ParseHeaderReturn \/ ParseHeaderRaise

SpecHeader == HdrInit /\ [][HdrNext]_vars

(***************************************************************************)
(* bin_to_csv.py: format_datetime and convert_file                         *)
(***************************************************************************)
\* CSV_HEADER, as the list of its column names
CSV_HEADER ==
    <<"datetime", "timestamp_us", "can_id", "dlc",
      "b0", "b1", "b2", "b3", "b4", "b5", "b6", "b7">>

\* records read per chunk: src.read(RECORD_SIZE * 1024)
CHUNK_RECORDS == 1024

\* dt.datetime.fromtimestamp(seconds_int).strftime("%Y-%m-%d %H:%M:%S"):
\* the calendar rendering is the library's; it is kept as a non-empty text
\* determined by the second
Strftime(seconds_int) == "@" \o Str(seconds_int)

\* the offset to the monotonic start forgotten
WallTime_DropOffset(log_start_unix_us, log_start_mono_us, timestamp_us) ==
    IF BigLess(timestamp_us, log_start_mono_us)
    THEN log_start_unix_us
    ELSE BigAdd(log_start_unix_us, timestamp_us)

\* lines 49-52: unix_us
WallTime(log_start_unix_us, log_start_mono_us, timestamp_us) ==
    IF BigLess(timestamp_us, log_start_mono_us)
    THEN log_start_unix_us
    ELSE BigAdd(log_start_unix_us, BigSub(timestamp_us, log_start_mono_us))

\* the string stored under the second after
CacheStore_WrongKey(cache, seconds_int, formatted) ==
    (BigAdd(seconds_int, <<1>>) :> formatted) @@ cache

\* line 60: cache[seconds_int] = formatted
CacheStore(cache, seconds_int, formatted) ==
    (seconds_int :> formatted) @@ cache

\* returns the string and the cache as the call leaves it
format_datetime(log_start_unix_us, log_start_mono_us, timestamp_us, cache) ==
    IF log_start_unix_us = <<>> THEN [str |-> "", cache |-> cache]
    ELSE
    LET unix_us == WallTime(log_start_unix_us, log_start_mono_us, timestamp_us)
        \* unix_us // 1_000_000
        seconds_int == BigDiv(BigDiv(unix_us, 1000), 1000)
    IN  IF seconds_int \in DOMAIN cache
        THEN [str |-> cache[seconds_int], cache |-> cache]
        ELSE [str   |-> Strftime(seconds_int),
              cache |-> CacheStore(cache, seconds_int, Strftime(seconds_int))]

\* struct.unpack(RECORD_FMT, rec)
unpack_record(rec) ==
    [timestamp_us |-> LittleEndian(Field(RECORD_FMT, rec, 1)),
     can_id       |-> LittleEndian(Field(RECORD_FMT, rec, 2)),
     dlc          |-> Field(RECORD_FMT, rec, 3)[1],
     flags        |-> Field(RECORD_FMT, rec, 4)[1],
     payload      |-> Field(RECORD_FMT, rec, 5),
     reserved     |-> LittleEndian(Field(RECORD_FMT, rec, 6))]

\* only the first dlc payload bytes written
csv_row_OnlyDlcBytes(datetime_str, r) ==
    <<datetime_str, Str(r.timestamp_us), HexPad(r.can_id, 3), StrInt(r.dlc)>>
    \o [k \in 1..(IF r.dlc < Len(r.payload) THEN r.dlc ELSE Len(r.payload)) |->
           HexPadInt(r.payload[k], 2)]

\* the list joined with "," into one output line
csv_row(datetime_str, r) ==
    <<datetime_str, Str(r.timestamp_us), HexPad(r.can_id, 3), StrInt(r.dlc)>>
    \o [k \in 1..Len(r.payload) |-> HexPadInt(r.payload[k], 2)]

\* rec = data[offset:offset + RECORD_SIZE]
RecordAt(data, offset) ==
    Slice(data, offset, offset + RECORD_SIZE)

RECURSIVE convert_records(_, _, _, _, _)
\* for i in range(record_count): ... ; st carries dst, records_written,
\* datetime_cache and the slices unpacked
convert_records(data, i, record_count, header, st) ==
    IF i >= record_count THEN st
    ELSE
    LET offset == i * RECORD_SIZE
        rec    == RecordAt(data, offset)
        r      == unpack_record(rec)
        fd     == format_datetime(header.log_start_unix_us,
                                  header.log_start_monotonic_us,
                                  r.timestamp_us, st.cache)
    IN  convert_records(data, i + 1, record_count, header,
            [dst     |-> Append(st.dst, csv_row(fd.str, r)),
             written |-> st.written + 1,
             cache   |-> fd.cache,
             recs    |-> Append(st.recs, rec)])

\* the new chunk alone, the carry-over forgotten
WorkBuffer_NoCarry(leftover, chunk) == chunk

\* data = leftover + chunk
WorkBuffer(leftover, chunk) == leftover \o chunk

\* leftover = data[end:] with one byte too many dropped
Leftover_DropByte(data, end) == Slice(data, end + 1, Len(data))

\* leftover = data[end:]
Leftover(data, end) == Slice(data, end, Len(data))

\* ---- inputs: a 64-byte header followed by a record stream
SampleHeader(ver, unix) ==
    HeaderBytes(GoodMagic, ver, <<64, 0>>, unix, <<32, 161, 7, 0, 0, 0, 0, 0>>,
                <<24, 0, 0, 0>>, Repeat(0, 4), Repeat(0, 28))

ConvHeaders ==
    { SampleHeader(<<1, 0>>, <<0, 64, 30, 24, 36, 10, 6, 0>>),   \* wall clock known
      SampleHeader(<<1, 0>>, Repeat(0, 8)),                      \* wall clock unknown
      SampleHeader(<<2, 0>>, Repeat(0, 8)),                      \* unsupported version
      SubSeq(SampleHeader(<<1, 0>>, Repeat(0, 8)), 1, 40) }      \* file too small

\* timestamp_us, can_id, dlc, flags, payload[8], reserved
RecordSamples ==
    << <<132, 161, 7, 0, 0, 0, 0, 0>> \o <<208, 1, 0, 0>> \o <<2, 0>>
         \o <<18, 52, 0, 0, 0, 0, 0, 0>> \o <<0, 0>>,
       <<24, 157, 7, 0, 0, 0, 0, 0>> \o <<170, 0, 0, 0>> \o <<8, 1>>
         \o <<26, 43, 60, 77, 94, 111, 128, 145>> \o <<3, 4>>,
       <<200, 50, 60, 70, 80, 1, 0, 0>> \o <<167, 4, 1, 0>> \o <<9, 255>>
         \o <<255, 254, 253, 252, 251, 250, 249, 248>> \o <<255, 255>> >>

RECURSIVE SampleStream(_, _)
\* n records, cycling through RecordSamples from sample number first
SampleStream(first, n) ==
    IF n = 0 THEN <<>>
    ELSE RecordSamples[first] \o SampleStream((first % Len(RecordSamples)) + 1, n - 1)

\* the longest record stream tried, in bytes
MaxStream == 82

ConvFiles ==
    { h \o Slice(SampleStream(1, (MaxStream \div RECORD_SIZE) + 1), 0, n) :
        h \in ConvHeaders, n \in 0..MaxStream }

CvInit ==
    /\ cv_file \in ConvFiles
    /\ cv_pos = 0
    /\ cv_pc = "open"
    /\ cv_header = <<>>
    /\ cv_dst = <<"stale">>          \* what output_path held before the run
    /\ cv_leftover = <<>>
    /\ cv_written = 0
    /\ cv_cache = <<>>
    /\ cv_buflen = 0
    /\ cv_joined = FALSE
    /\ cv_recs = <<>>
    /\ cv_stderr = <<>>
    /\ cv_ret = <<>>
    /\ HdrIdle
    /\ EbIdle
    /\ SgIdle
    /\ RgIdle
    /\ DmIdle
    /\ FdIdle
    /\ AnIdle
    /\ CbIdle
    /\ VaIdle
    /\ IgIdle
    /\ RtIdle
    /\ MnIdle
    /\ EpIdle
    /\ BfIdle
    /\ TxIdle
    /\ MgIdle

\* lines 65-74: the header is read and accepted, dst is opened ("w"
\* truncates it) and CSV_HEADER written
ConvOpen ==
    /\ cv_pc = "open"
    /\ LET header_data == Slice(cv_file, 0, HEADER_SIZE)
           header      == parse_header(header_data)
       IN  /\ header.ok
           /\ cv_pos' = Len(header_data)
           /\ cv_header' = header
    /\ cv_dst' = <<CSV_HEADER>>
    /\ cv_leftover' = <<>>
    /\ cv_written' = 0
    /\ cv_cache' = <<>>
    /\ cv_pc' = "loop"
    /\ UNCHANGED <<cv_file, cv_buflen, cv_joined, cv_recs, cv_stderr, cv_ret, hdrVars, ebVars, sgVars, rgVars, dmVars, fdVars, anVars, cbVars, vaVars, igVars, rtVars, mnVars, epVars, bfVars, txVars, mgVars>>

\* the output file opened, and so truncated, before the header is checked
ConvHeaderRaise_OutputOpened ==
    /\ cv_pc = "open"
    /\ LET header_data == Slice(cv_file, 0, HEADER_SIZE)
           header      == parse_header(header_data)
       IN  /\ ~header.ok
           /\ cv_pos' = Len(header_data)
           /\ cv_ret' = header
    /\ cv_pc' = "raised"
    /\ cv_dst' = <<>>
    /\ UNCHANGED <<cv_file, cv_header, cv_leftover, cv_written, cv_cache,
                   cv_buflen, cv_joined, cv_recs, cv_stderr, hdrVars, ebVars, sgVars, rgVars, dmVars, fdVars, anVars, cbVars, vaVars, igVars, rtVars, mnVars, epVars, bfVars, txVars, mgVars>>

\* lines 66-67: parse_header raises; convert_file propagates the ValueError
ConvHeaderRaise ==
    /\ cv_pc = "open"
    /\ LET header_data == Slice(cv_file, 0, HEADER_SIZE)
           header      == parse_header(header_data)
       IN  /\ ~header.ok
           /\ cv_pos' = Len(header_data)
           /\ cv_ret' = header
    /\ cv_pc' = "raised"
    /\ UNCHANGED <<cv_file, cv_header, cv_dst, cv_leftover, cv_written, cv_cache,
                   cv_buflen, cv_joined, cv_recs, cv_stderr, hdrVars, ebVars, sgVars, rgVars, dmVars, fdVars, anVars, cbVars, vaVars, igVars, rtVars, mnVars, epVars, bfVars, txVars, mgVars>>

\* lines 77-109: one iteration of the loop; src.read returns n > 0 bytes,
\* at most RECORD_SIZE * 1024 and at most what is left of the file
ConvReadChunk(n) ==
    /\ cv_pc = "loop"
    /\ n >= 1
    /\ n <= RECORD_SIZE * CHUNK_RECORDS
    /\ cv_pos + n <= Len(cv_file)
    /\ LET chunk        == Slice(cv_file, cv_pos, cv_pos + n)
           data         == WorkBuffer(cv_leftover, chunk)
           record_count == Len(data) \div RECORD_SIZE
           end          == record_count * RECORD_SIZE
           st           == convert_records(data, 0, record_count, cv_header,
                               [dst |-> cv_dst, written |-> cv_written,
                                cache |-> cv_cache, recs |-> cv_recs])
       IN  /\ cv_leftover' = Leftover(data, end)
           /\ cv_buflen' = Len(data)
           /\ cv_joined' = (cv_leftover # <<>> /\ record_count > 0)
           /\ cv_dst' = st.dst
           /\ cv_written' = st.written
           /\ cv_cache' = st.cache
           /\ cv_recs' = st.recs
    /\ cv_pos' = cv_pos + n
    /\ UNCHANGED <<cv_file, cv_pc, cv_header, cv_stderr, cv_ret, hdrVars, ebVars, sgVars, rgVars, dmVars, fdVars, anVars, cbVars, vaVars, igVars, rtVars, mnVars, epVars, bfVars, txVars, mgVars>>

\* lines 77-79, 111-117: src.read returns b"" at end of file; the loop is
\* left, the warning printed if leftover is not empty, records_written returned
ConvEof ==
    /\ cv_pc = "loop"
    /\ cv_pos = Len(cv_file)
    /\ cv_stderr' = IF cv_leftover # <<>> THEN Append(cv_stderr, Len(cv_leftover))
                    ELSE cv_stderr
    /\ cv_ret' = [ok |-> TRUE, value |-> cv_written]
    /\ cv_pc' = "returned"
    /\ UNCHANGED <<cv_file, cv_pos, cv_header, cv_dst, cv_leftover, cv_written,
                   cv_cache, cv_buflen, cv_joined, cv_recs, hdrVars, ebVars, sgVars, rgVars, dmVars, fdVars, anVars, cbVars, vaVars, igVars, rtVars, mnVars, epVars, bfVars, txVars, mgVars>>

CvNext ==
    \/ ConvOpen
    \/ ConvHeaderRaise
    \/ \E n \in 1..(MaxStream + 1) : ConvReadChunk(n)
    \/ ConvEof

Spec == CvInit /\ [][CvNext]_vars

(***************************************************************************)
(* bin_to_csv.py: format_datetime, called repeatedly on one cache          *)
(***************************************************************************)
\* ---- inputs: microsecond counts as 8 little-endian bytes
\* 0, 1, 999_999 and 1_700_000_000_000_000
UnixStartSamples ==
    { LittleEndian(<<0, 0, 0, 0, 0, 0, 0, 0>>),
      LittleEndian(<<1, 0, 0, 0, 0, 0, 0, 0>>),
      LittleEndian(<<63, 66, 15, 0, 0, 0, 0, 0>>),
      LittleEndian(<<0, 64, 30, 24, 36, 10, 6, 0>>) }

\* 0, 500_000 and 2^64 - 1
MonoStartSamples ==
    { LittleEndian(<<0, 0, 0, 0, 0, 0, 0, 0>>),
      LittleEndian(<<32, 161, 7, 0, 0, 0, 0, 0>>),
      LittleEndian(<<255, 255, 255, 255, 255, 255, 255, 255>>) }

\* 0, 499_999, 500_000, 500_100, 1_499_999, 1_500_000 and 2^64 - 1
TimestampSamples ==
    { LittleEndian(<<0, 0, 0, 0, 0, 0, 0, 0>>),
      LittleEndian(<<31, 161, 7, 0, 0, 0, 0, 0>>),
      LittleEndian(<<32, 161, 7, 0, 0, 0, 0, 0>>),
      LittleEndian(<<132, 161, 7, 0, 0, 0, 0, 0>>),
      LittleEndian(<<95, 227, 22, 0, 0, 0, 0, 0>>),
      LittleEndian(<<96, 227, 22, 0, 0, 0, 0, 0>>),
      LittleEndian(<<255, 255, 255, 255, 255, 255, 255, 255>>) }

\* the calls made on one cache
MaxCalls == 2

\* line 74: datetime_cache = {}
FdInit ==
    /\ fd_args = <<>>
    /\ fd_cache = <<>>
    /\ fd_calls = 0
    /\ fd_pc = "ready"
    /\ fd_ret = ""
    /\ fd_hit = FALSE
    /\ HdrIdle
    /\ CvIdle
    /\ EbIdle
    /\ SgIdle
    /\ RgIdle
    /\ DmIdle
    /\ AnIdle
    /\ CbIdle
    /\ VaIdle
    /\ IgIdle
    /\ RtIdle
    /\ MnIdle
    /\ EpIdle
    /\ BfIdle
    /\ TxIdle
    /\ MgIdle

\* lines 45-61: one call
FormatDatetime(log_start_unix_us, log_start_mono_us, timestamp_us) ==
    /\ fd_pc = "ready"
    /\ fd_calls < MaxCalls
    /\ LET r == format_datetime(log_start_unix_us, log_start_mono_us, timestamp_us,
                                fd_cache)
       IN  /\ fd_ret' = r.str
           /\ fd_cache' = r.cache
           /\ fd_hit' = (log_start_unix_us # <<>> /\ r.cache = fd_cache)
    /\ fd_args' = [log_start_unix_us |-> log_start_unix_us,
                   log_start_mono_us |-> log_start_mono_us,
                   timestamp_us      |-> timestamp_us]
    /\ fd_calls' = fd_calls + 1
    /\ UNCHANGED <<fd_pc, hdrVars, cvVars, ebVars, sgVars, rgVars, dmVars, anVars, cbVars, vaVars, igVars, rtVars, mnVars, epVars, bfVars, txVars, mgVars>>

FdNext ==
    \E u \in UnixStartSamples, mo \in MonoStartSamples, ts \in TimestampSamples :
        FormatDatetime(u, mo, ts)

SpecDatetime == FdInit /\ [][FdNext]_vars

(***************************************************************************)
(* decode_with_obdb.py: OBDbDecoder.extract_bits                           *)
(***************************************************************************)
\* a Python int with its sign: the Big magnitude and whether it is negative
PyInt(neg, mag) == [kind |-> "int", neg |-> neg /\ mag # <<>>, mag |-> mag]
None == [kind |-> "None"]

RECURSIVE Reversed(_)
Reversed(q) == IF q = <<>> THEN <<>> ELSE Append(Reversed(Tail(q)), Head(q))

\* the eight binary digits written least significant first
Format08b_LsbFirst(b) == Reversed(ZeroPad(IntDigits(b, 2), 8))

\* f'{b:08b}': the binary digits of b, zero padded to at least 8
Format08b(b) == ZeroPad(IntDigits(b, 2), 8)

RECURSIVE BitString(_)
\* ''.join(f'{b:08b}' for b in data_bytes)
BitString(data_bytes) ==
    IF data_bytes = <<>> THEN <<>>
    ELSE Format08b(Head(data_bytes)) \o BitString(Tail(data_bytes))

\* int(bits, 2), most significant digit first: the digit at distance w from
\* the end weighs 2^w; limb k collects the weights 16(k-1) .. 16k-1
IntBase2(bits) ==
    LET n == Len(bits)
    IN  BigNorm([k \in 1..((n + 15) \div 16) |->
            SumSeq([w \in 1..16 |->
                IF 16 * (k - 1) + w <= n
                THEN bits[n + 1 - (16 * (k - 1) + w)] * Pow2(w - 1)
                ELSE 0])])

\* 1 << n
BigPow2(n) ==
    [k \in 1..((n \div 16) + 1) |-> IF k = (n \div 16) + 1 THEN Pow2(n % 16) ELSE 0]

\* the slice bit_string[bix:bix + length + 1]
ValueBits_OneMore(bit_string, bix, length) ==
    Slice(bit_string, bix, bix + length + 1)

\* value_bits = bit_string[bix:bix + length]
ValueBits(bit_string, bix, length) ==
    Slice(bit_string, bix, bix + length)

\* the adjustment applied from 1 << length upwards only
SignedValue_LateThreshold(value, length) ==
    IF ~BigLess(value, BigPow2(length))
    THEN PyInt(FALSE, BigSub(value, BigPow2(length)))
    ELSE PyInt(FALSE, value)

\* if value >= (1 << (length - 1)): value -= (1 << length)
SignedValue(value, length) ==
    IF ~BigLess(value, BigPow2(length - 1))
    THEN IF BigLess(value, BigPow2(length))
         THEN PyInt(TRUE, BigSub(BigPow2(length), value))
         ELSE PyInt(FALSE, BigSub(value, BigPow2(length)))
    ELSE PyInt(FALSE, value)

\* the range check off by one: a field ending at the last bit is refused
OutOfRange_Inclusive(bix, length, nbits) == bix + length >= nbits

\* if bix + length > len(bit_string)
OutOfRange(bix, length, nbits) == bix + length > nbits

\* for bix >= 0 and length >= 1
extract_bits(data_bytes, bix, length, signed) ==
    LET bit_string == BitString(data_bytes)
    IN  IF OutOfRange(bix, length, Len(bit_string)) THEN None
        ELSE LET value == IntBase2(ValueBits(bit_string, bix, length))
             IN  IF signed THEN SignedValue(value, length)
                 ELSE PyInt(FALSE, value)

\* ---- inputs: the first n bytes of a sample payload, an offset and a length
PAYLOAD_BYTES == 8

PayloadSamples ==
    { <<26, 43, 60, 77, 94, 111, 128, 145>>,
      <<255, 255, 255, 255, 255, 255, 255, 255>>,
      <<128, 0, 0, 0, 0, 0, 0, 0>> }

Payloads == { SubSeq(p, 1, n) : p \in PayloadSamples, n \in 0..PAYLOAD_BYTES }

\* bit_length is 1..64, bit_offset 0..63
MAX_BITS == 64

EbInit ==
    /\ eb_data \in Payloads
    /\ eb_bix \in 0..(MAX_BITS - 1)
    /\ eb_length \in 1..MAX_BITS
    /\ eb_signed \in BOOLEAN
    /\ eb_pc = "call"
    /\ eb_result = <<>>
    /\ HdrIdle
    /\ CvIdle
    /\ SgIdle
    /\ RgIdle
    /\ DmIdle
    /\ FdIdle
    /\ AnIdle
    /\ CbIdle
    /\ VaIdle
    /\ IgIdle
    /\ RtIdle
    /\ MnIdle
    /\ EpIdle
    /\ BfIdle
    /\ TxIdle
    /\ MgIdle

\* extract_bits(eb_data, eb_bix, eb_length, eb_signed) returns
ExtractBits ==
    /\ eb_pc = "call"
    /\ eb_result' = extract_bits(eb_data, eb_bix, eb_length, eb_signed)
    /\ eb_pc' = "returned"
    /\ UNCHANGED <<eb_data, eb_bix, eb_length, eb_signed, hdrVars, cvVars, sgVars, rgVars, dmVars, fdVars, anVars, cbVars, vaVars, igVars, rtVars, mnVars, epVars, bfVars, txVars, mgVars>>

EbNext == ExtractBits

SpecBits == EbInit /\ [][EbNext]_vars

(***************************************************************************)
(* decode_with_obdb.py: OBDbDecoder.decode_signal                          *)
(*                                                                         *)
(* float values are kept exact, as fractions n/d in lowest terms, d > 0    *)
(***************************************************************************)
RECURSIVE Gcd(_, _)
Gcd(a, b) == IF b = 0 THEN a ELSE Gcd(b, a % b)

Abs(x) == IF x < 0 THEN -x ELSE x

Num(n, d) ==
    LET g == Gcd(Abs(n), Abs(d))
        sg == IF d < 0 THEN -1 ELSE 1
    IN  [kind |-> "num", n |-> sg * (n \div g), d |-> sg * (d \div g)]

NumAdd(x, y) == Num(x.n * y.d + y.n * x.d, x.d * y.d)
NumMul(x, y) == Num(x.n * y.n, x.d * y.d)
\* for y # 0
NumDiv(x, y) == Num(x.n * y.d, x.d * y.n)

\* a Python int that fits 31 bits, as an integer
IntOf(v) == (IF v.neg THEN -1 ELSE 1) * (Limb(v.mag, 1) + LimbBase * Limb(v.mag, 2))

\* dict.get(key, default)
Get(d, key, default) == IF key \in DOMAIN d THEN d[key] ELSE default

ZeroDivisionError == [kind |-> "raise", error |-> "ZeroDivisionError"]

\* the scale applied before the offset
Transform_MulBeforeAdd(raw, add, mul, div) ==
    LET v0 == Num(IntOf(raw), 1)
        v1 == IF mul.kind # "None" THEN NumMul(v0, mul) ELSE v0
        v2 == IF add.kind # "None" THEN NumAdd(v1, add) ELSE v1
    IN  IF div.kind # "None"
        THEN IF div.n = 0 THEN ZeroDivisionError ELSE NumDiv(v2, div)
        ELSE v2

\* lines 294-307: value = float(raw); += float(add); *= float(mul); /= float(div)
Transform(raw, add, mul, div) ==
    LET v0 == Num(IntOf(raw), 1)
        v1 == IF add.kind # "None" THEN NumAdd(v0, add) ELSE v0
        v2 == IF mul.kind # "None" THEN NumMul(v1, mul) ELSE v1
    IN  IF div.kind # "None"
        THEN IF div.n = 0 THEN ZeroDivisionError ELSE NumDiv(v2, div)
        ELSE v2

\* the raw value extract_bits returns inside decode_signal
signal_raw(data_bytes, signal_def) ==
    extract_bits(data_bytes, Get(signal_def, "bix", 0), Get(signal_def, "len", 8),
                 Get(signal_def, "sign", FALSE))

decode_signal(data_bytes, signal_def) ==
    LET raw == signal_raw(data_bytes, signal_def)
    IN  IF raw = None THEN None
        ELSE LET value == Transform(raw, Get(signal_def, "add", None),
                                    Get(signal_def, "mul", None),
                                    Get(signal_def, "div", None))
             IN  IF value.kind = "raise" THEN value
                 ELSE [kind  |-> "signal",
                       raw   |-> raw,
                       value |-> value,
                       unit  |-> Get(signal_def, "unit", "unknown"),
                       name  |-> Get(signal_def, "name", "Unknown")]

\* ---- inputs: a dict with each key present or not
Entry(key, opt) == IF opt = {} THEN <<>> ELSE key :> (CHOOSE v \in opt : TRUE)

SignalDef(bix, len, sign, add, mul, div, unit, name) ==
    Entry("bix", bix) @@ Entry("len", len) @@ Entry("sign", sign) @@ Entry("add", add)
    @@ Entry("mul", mul) @@ Entry("div", div) @@ Entry("unit", unit) @@ Entry("name", name)

BixSamples  == { {}, {0}, {4}, {8}, {52}, {56} }
LenSamples  == { {}, {1}, {4}, {8}, {12} }
SignSamples == { {}, {FALSE}, {TRUE} }
AddSamples  == { {}, {None}, {Num(-40, 1)} }
MulSamples  == { {}, {Num(27, 20)}, {Num(3, 1)} }
DivSamples  == { {}, {Num(4, 1)}, {Num(5, 2)}, {Num(0, 1)} }
UnitSamples == { {}, {"celsius"} }

SignalDefInputs ==
    { SignalDef(b, l, sn, a, mu, dv, u, {"Sig"}) :
        b \in BixSamples, l \in LenSamples, sn \in SignSamples, a \in AddSamples,
        mu \in MulSamples, dv \in DivSamples, u \in UnitSamples }

SgInit ==
    /\ sg_data \in Payloads
    /\ sg_def \in SignalDefInputs
    /\ sg_pc = "call"
    /\ sg_raw = <<>>
    /\ sg_result = <<>>
    /\ HdrIdle
    /\ CvIdle
    /\ EbIdle
    /\ RgIdle
    /\ DmIdle
    /\ FdIdle
    /\ AnIdle
    /\ CbIdle
    /\ VaIdle
    /\ IgIdle
    /\ RtIdle
    /\ MnIdle
    /\ EpIdle
    /\ BfIdle
    /\ TxIdle
    /\ MgIdle

\* decode_signal(sg_data, sg_def) returns
DecodeSignalReturn ==
    /\ sg_pc = "call"
    /\ decode_signal(sg_data, sg_def).kind # "raise"
    /\ sg_raw' = signal_raw(sg_data, sg_def)
    /\ sg_result' = decode_signal(sg_data, sg_def)
    /\ sg_pc' = "returned"
    /\ UNCHANGED <<sg_data, sg_def, hdrVars, cvVars, ebVars, rgVars, dmVars, fdVars, anVars, cbVars, vaVars, igVars, rtVars, mnVars, epVars, bfVars, txVars, mgVars>>

\* decode_signal(sg_data, sg_def) raises (float division by zero)
DecodeSignalRaise ==
    /\ sg_pc = "call"
    /\ decode_signal(sg_data, sg_def).kind = "raise"
    /\ sg_raw' = signal_raw(sg_data, sg_def)
    /\ sg_result' = decode_signal(sg_data, sg_def)
    /\ sg_pc' = "raised"
    /\ UNCHANGED <<sg_data, sg_def, hdrVars, cvVars, ebVars, rgVars, dmVars, fdVars, anVars, cbVars, vaVars, igVars, rtVars, mnVars, epVars, bfVars, txVars, mgVars>>

SgNext == DecodeSignalReturn \/ DecodeSignalRaise

SpecSignal == SgInit /\ [][SgNext]_vars

(***************************************************************************)
(* decode_with_obdb.py: OBDbDecoder.__init__, load_obdb,                   *)
(* build_obdb_definitions, merge_signal_definitions                        *)
(*                                                                         *)
(* A dict is a function on its keys, the empty dict is <<>>.  The text of  *)
(* 'rax' is a sequence of characters, every other text is a string.        *)
(***************************************************************************)
\* lines 25-88; 0x0AA = 170, 0x0B4 = 180, 0x1AA = 426, 0x1C4 = 452,
\* 0x1D0 = 464, 0x2C1 = 705, 0x4A7 = 1191, 0x498 = 1176
MANUAL_CAN_IDS ==
    (170 :> [name |-> "TPMS Pressure",
             signals |-> <<
               [name |-> "FL Pressure", bix |-> 0, len |-> 16, div |-> Num(30, 1),
                mul |-> Num(145038, 1000000), unit |-> "psi"],
               [name |-> "FR Pressure", bix |-> 16, len |-> 16, div |-> Num(30, 1),
                mul |-> Num(145038, 1000000), unit |-> "psi"],
               [name |-> "RL Pressure", bix |-> 32, len |-> 16, div |-> Num(30, 1),
                mul |-> Num(145038, 1000000), unit |-> "psi"],
               [name |-> "RR Pressure", bix |-> 48, len |-> 16, div |-> Num(30, 1),
                mul |-> Num(145038, 1000000), unit |-> "psi"] >>,
             source |-> "built-in"])
    @@ (180 :> [name |-> "Vehicle Speed",
                signals |-> <<
                  [name |-> "Speed", bix |-> 0, len |-> 16, mul |-> Num(135, 100),
                   unit |-> "km/h"] >>,
                source |-> "built-in"])
    @@ (426 :> [name |-> "Steering Angle",
                signals |-> <<
                  [name |-> "Steering Angle", bix |-> 0, len |-> 16, div |-> Num(10, 1),
                   sign |-> TRUE, unit |-> "degrees"] >>,
                source |-> "built-in"])
    @@ (452 :> [name |-> "Throttle Position",
                signals |-> <<
                  [name |-> "Throttle Position", bix |-> 8, len |-> 8,
                   div |-> Num(255, 100), unit |-> "%"] >>,
                source |-> "built-in"])
    @@ (464 :> [name |-> "Engine RPM",
                signals |-> <<
                  [name |-> "RPM", bix |-> 8, len |-> 16, div |-> Num(4, 1),
                   unit |-> "rpm"] >>,
                source |-> "built-in"])
    @@ (705 :> [name |-> "Engine Data",
                signals |-> <<
                  [name |-> "Coolant Temp", bix |-> 0, len |-> 8, add |-> Num(-40, 1),
                   unit |-> "celsius"] >>,
                source |-> "built-in"])
    @@ (1191 :> [name |-> "TPMS Temperature",
                 signals |-> <<
                   [name |-> "FL Temp", bix |-> 0, len |-> 8, add |-> Num(-40, 1),
                    unit |-> "celsius"],
                   [name |-> "FR Temp", bix |-> 8, len |-> 8, add |-> Num(-40, 1),
                    unit |-> "celsius"],
                   [name |-> "RL Temp", bix |-> 16, len |-> 8, add |-> Num(-40, 1),
                    unit |-> "celsius"],
                   [name |-> "RR Temp", bix |-> 24, len |-> 8, add |-> Num(-40, 1),
                    unit |-> "celsius"] >>,
                 source |-> "built-in"])
    @@ (1176 :> [name |-> "TPMS/Vehicle Data",
                 signals |-> <<
                   [name |-> "Rear Tire Pressure", bix |-> 32, len |-> 8,
                    mul |-> Num(1583, 1000), unit |-> "kPa"] >>,
                 source |-> "built-in"])

\* d[k] = v
Put(d, k, v) == (k :> v) @@ d

\* "not x" for x that is None or a dict
NotDict(x) == x = None \/ DOMAIN x = {}

\* ---- int(str(rax), 16) for a text of letters and digits
HexUpper == <<"0", "1", "2", "3", "4", "5", "6", "7", "8", "9",
              "A", "B", "C", "D", "E", "F">>

HexLower == <<"0", "1", "2", "3", "4", "5", "6", "7", "8", "9",
              "a", "b", "c", "d", "e", "f">>

IsHexChar(c) == \E i \in 1..Len(HexUpper) : HexUpper[i] = c \/ HexLower[i] = c

HexValue(c) == (CHOOSE i \in 1..Len(HexUpper) : HexUpper[i] = c \/ HexLower[i] = c) - 1

\* the digits of s after an optional "0x" or "0X"
HexBody(s) ==
    IF Len(s) >= 2 /\ s[1] = "0" /\ s[2] \in {"x", "X"} THEN SubSeq(s, 3, Len(s)) ELSE s

\* int(s, 16) does not raise ValueError
IsBase16(s) ==
    /\ HexBody(s) # <<>>
    /\ \A i \in 1..Len(HexBody(s)) : IsHexChar(HexBody(s)[i])

RECURSIVE HexNumber(_)
HexNumber(digits) ==
    IF digits = <<>> THEN 0
    ELSE 16 * HexNumber(SubSeq(digits, 1, Len(digits) - 1)) + HexValue(digits[Len(digits)])

\* int(s, 16), for IsBase16(s)
IntBase16(s) == HexNumber(HexBody(s))

\* lines 111-129, for a 'cmd' dict of at most one entry
build_obdb_message_name(cmd) ==
    LET signals   == Get(cmd, "signals", <<>>)
        has_path  == signals # <<>> /\ "path" \in DOMAIN signals[1]
                     /\ signals[1]["path"] # ""
        cmd_bytes == Get(cmd, "cmd", <<>>)
        has_label == DOMAIN cmd_bytes # {}
        svc       == CHOOSE k \in DOMAIN cmd_bytes : TRUE
        cmd_label == svc \o " " \o cmd_bytes[svc]
    IN  IF has_path /\ has_label THEN signals[1]["path"] \o " (" \o cmd_label \o ")"
        ELSE IF has_path THEN signals[1]["path"]
        ELSE IF has_label THEN "OBDb " \o cmd_label
        ELSE "OBDb Signal"

\* lines 148-159: the definition appended for one signal of a command
obdb_signal(sig) ==
    LET fmt == Get(sig, "fmt", <<>>)
    IN  [name   |-> Get(sig, "name", Get(sig, "id", "OBDb Signal")),
         bix    |-> Get(fmt, "bix", 0),
         len    |-> Get(fmt, "len", 8),
         add    |-> Get(fmt, "add", None),
         mul    |-> Get(fmt, "mul", None),
         div    |-> Get(fmt, "div", None),
         sign   |-> Get(fmt, "sign", Get(fmt, "signed", FALSE)),
         unit   |-> Get(fmt, "unit", "raw"),
         source |-> "obdb"]

\* lines 146-159
obdb_signals(cmd) ==
    LET sigs == Get(cmd, "signals", <<>>)
    IN  [i \in 1..Len(sigs) |-> obdb_signal(sigs[i])]

\* lines 137-166: one iteration of the loop over the commands.
\* The entry of an external command replaces what the identifier held.
StoreCommand(can_ids, cmd) ==
    LET rax     == Get(cmd, "rax", <<>>)
        signals == obdb_signals(cmd)
    IN  IF rax = <<>> \/ ~IsBase16(rax) \/ signals = <<>> THEN can_ids
        ELSE Put(can_ids, IntBase16(rax),
                 [name    |-> build_obdb_message_name(cmd),
                  signals |-> signals,
                  source  |-> "obdb"])

RECURSIVE StoreCommands(_, _)
StoreCommands(can_ids, commands) ==
    IF commands = <<>> THEN can_ids
    ELSE StoreCommands(StoreCommand(can_ids, Head(commands)), Tail(commands))

\* lines 131-166
build_obdb_definitions(data, can_ids) ==
    IF NotDict(data) THEN can_ids
    ELSE StoreCommands(can_ids, Get(data, "commands", <<>>))

\* lines 170-177
CopyManual(manual) ==
    [cid \in DOMAIN manual |->
        [name    |-> Get(manual[cid], "name", "Unknown"),
         signals |-> Get(manual[cid], "signals", <<>>),
         source  |-> Get(manual[cid], "source", "built-in")]]

\* the external signals put before the built-in ones
MergedSignals_ExternalFirst(existing, defn) ==
    Get(defn, "signals", <<>>) \o Get(existing, "signals", <<>>)

\* line 182
MergedSignals(existing, defn) ==
    Get(existing, "signals", <<>>) \o Get(defn, "signals", <<>>)

\* lines 180-194: one iteration of the loop over obdb_can_ids
MergeOne(definitions, cid, defn) ==
    IF cid \in DOMAIN definitions
    THEN LET existing == definitions[cid]
         IN  Put(definitions, cid,
                 [name    |-> IF Get(existing, "name", "") # "" THEN existing["name"]
                              ELSE defn["name"],
                  signals |-> MergedSignals(existing, defn),
                  source  |-> Get(existing, "source", "built-in") \o "+obdb"])
    ELSE Put(definitions, cid,
             [name    |-> Get(defn, "name", "Unknown"),
              signals |-> Get(defn, "signals", <<>>),
              source  |-> Get(defn, "source", "obdb")])

\* lines 179-194; each iteration touches the entry of its own identifier
\* only, so the identifiers are taken in ascending order
RECURSIVE MergeObdb(_, _, _)
MergeObdb(definitions, obdb, todo) ==
    IF todo = {} THEN definitions
    ELSE LET cid == CHOOSE c \in todo : \A o \in todo : c <= o
         IN  MergeObdb(MergeOne(definitions, cid, obdb[cid]), obdb, todo \ {cid})

\* the registry of the previous call kept and merged onto
merge_signal_definitions_OntoRegistry(manual, obdb) ==
    MergeObdb(IF signal_definitions = <<>> THEN CopyManual(manual) ELSE signal_definitions,
              obdb, DOMAIN obdb)

\* lines 168-194
merge_signal_definitions(manual, obdb) ==
    MergeObdb(CopyManual(manual), obdb, DOMAIN obdb)

\* ---- inputs: the OBDb file is missing, is not JSON, or holds a document
\* with up to MaxCommands commands
MaxCommands == 2

\* an external command for the built-in identifier 0x0AA
CmdTirePressure ==
    [rax |-> <<"0", "A", "A">>,
     cmd |-> ("22" :> "1001"),
     signals |-> << [id |-> "TPMS_X", name |-> "Ext Pressure", path |-> "Tires",
                     fmt |-> [bix |-> 0, len |-> 8, mul |-> Num(2, 1),
                              unit |-> "kPa"]] >>]

\* an identifier no built-in definition has
CmdEngine ==
    [rax |-> <<"7", "E", "8">>,
     signals |-> << [id |-> "RPM", path |-> "Engine",
                     fmt |-> [bix |-> 8, len |-> 16, div |-> Num(4, 1),
                              unit |-> "rpm"]],
                    [id |-> "LOAD", name |-> "Load",
                     fmt |-> [signed |-> TRUE, add |-> Num(-40, 1)]],
                    [name |-> "Gear", fmt |-> [bix |-> 4, len |-> 4]] >>]

\* 0x0AA again, in lower case, with a zero divisor
CmdRatio ==
    [rax |-> <<"0", "a", "a">>,
     cmd |-> ("21" :> "C1"),
     signals |-> << [id |-> "RATIO",
                     fmt |-> [bix |-> 8, len |-> 8, div |-> Num(0, 1)]] >>]

\* int('zz', 16) raises ValueError
CmdBadRax ==
    [rax |-> <<"z", "z">>, signals |-> << [id |-> "X"] >>]

CmdNoRax ==
    [signals |-> << [id |-> "Y"] >>]

\* 0x2C1 with no signals
CmdNoSignals ==
    [rax |-> <<"0", "x", "2", "C", "1">>, signals |-> <<>>]

\* 0x2C4 with a signal that ends after bit 64 and a signal of no bits
CmdWide ==
    [rax |-> <<"2", "C", "4">>,
     signals |-> << [id |-> "WIDE", fmt |-> [bix |-> 60, len |-> 8]],
                    [id |-> "EMPTY", fmt |-> [bix |-> 8, len |-> 0]] >>]

CommandSamples ==
    {CmdTirePressure, CmdEngine, CmdRatio, CmdBadRax, CmdNoRax, CmdNoSignals, CmdWide}

RECURSIVE SeqsUpTo(_, _)
SeqsUpTo(S, n) ==
    IF n = 0 THEN {<<>>}
    ELSE LET shorter == SeqsUpTo(S, n - 1)
         IN  shorter \cup {Append(s, x) : s \in shorter, x \in S}

ObdbDocuments ==
    {<<>>} \cup {[commands |-> cs] : cs \in SeqsUpTo(CommandSamples, MaxCommands)}

ObdbFiles ==
    {[exists |-> FALSE, json |-> FALSE, doc |-> <<>>],
     [exists |-> TRUE, json |-> FALSE, doc |-> <<>>]}
    \cup {[exists |-> TRUE, json |-> TRUE, doc |-> d] : d \in ObdbDocuments}

\* lines 20-91
RgInit ==
    /\ rg_file \in ObdbFiles
    /\ rg_pc = "load"
    /\ manual_can_ids = MANUAL_CAN_IDS
    /\ obdb_data = None
    /\ obdb_can_ids = <<>>
    /\ signal_definitions = <<>>
    /\ HdrIdle
    /\ CvIdle
    /\ EbIdle
    /\ SgIdle
    /\ DmIdle
    /\ FdIdle
    /\ AnIdle
    /\ CbIdle
    /\ VaIdle
    /\ IgIdle
    /\ RtIdle
    /\ MnIdle
    /\ EpIdle
    /\ BfIdle
    /\ TxIdle
    /\ MgIdle

\* lines 99-102: the file does not exist
LoadObdbMissing ==
    /\ rg_pc = "load"
    /\ ~rg_file.exists
    /\ rg_pc' = "build"
    /\ UNCHANGED <<rg_file, manual_can_ids, obdb_data, obdb_can_ids, signal_definitions,
                   hdrVars, cvVars, ebVars, sgVars, dmVars, fdVars, anVars, cbVars, vaVars, igVars, rtVars, mnVars, epVars, bfVars, txVars, mgVars>>

\* lines 104-109: json.load raises, the exception is caught
LoadObdbError ==
    /\ rg_pc = "load"
    /\ rg_file.exists
    /\ ~rg_file.json
    /\ rg_pc' = "build"
    /\ UNCHANGED <<rg_file, manual_can_ids, obdb_data, obdb_can_ids, signal_definitions,
                   hdrVars, cvVars, ebVars, sgVars, dmVars, fdVars, anVars, cbVars, vaVars, igVars, rtVars, mnVars, epVars, bfVars, txVars, mgVars>>

\* lines 104-107
LoadObdb ==
    /\ rg_pc = "load"
    /\ rg_file.exists
    /\ rg_file.json
    /\ obdb_data' = rg_file.doc
    /\ rg_pc' = "build"
    /\ UNCHANGED <<rg_file, manual_can_ids, obdb_can_ids, signal_definitions,
                   hdrVars, cvVars, ebVars, sgVars, dmVars, fdVars, anVars, cbVars, vaVars, igVars, rtVars, mnVars, epVars, bfVars, txVars, mgVars>>

\* line 94
BuildObdbDefinitions ==
    /\ rg_pc = "build"
    /\ obdb_can_ids' = build_obdb_definitions(obdb_data, obdb_can_ids)
    /\ rg_pc' = "merge"
    /\ UNCHANGED <<rg_file, manual_can_ids, obdb_data, signal_definitions,
                   hdrVars, cvVars, ebVars, sgVars, dmVars, fdVars, anVars, cbVars, vaVars, igVars, rtVars, mnVars, epVars, bfVars, txVars, mgVars>>

\* line 95
MergeSignalDefinitions ==
    /\ rg_pc = "merge"
    /\ signal_definitions' = merge_signal_definitions(manual_can_ids, obdb_can_ids)
    /\ rg_pc' = "ready"
    /\ UNCHANGED <<rg_file, manual_can_ids, obdb_data, obdb_can_ids,
                   hdrVars, cvVars, ebVars, sgVars, dmVars, fdVars, anVars, cbVars, vaVars, igVars, rtVars, mnVars, epVars, bfVars, txVars, mgVars>>

RgNext ==
    \/ LoadObdbMissing
    \/ LoadObdbError
    \/ LoadObdb
    \/ BuildObdbDefinitions
    \/ MergeSignalDefinitions

SpecRegistry == RgInit /\ [][RgNext]_vars

(***************************************************************************)
(* decode_with_obdb.py: OBDbDecoder.decode_message                         *)
(***************************************************************************)
\* a miss empties the list
AppendResult_ClearOnMiss(signals, result) ==
    IF result = None THEN <<>> ELSE Append(signals, result)

\* lines 329-330: if result: decoded['signals'].append(result)
AppendResult(signals, result) ==
    IF result = None THEN signals ELSE Append(signals, result)

\* line 93: self.obdb_data after load_obdb on the file f
LoadedData(f) == IF f.exists /\ f.json THEN f.doc ELSE None

\* ---- inputs: a decoder constructed on one of three OBDb files, and a frame
DecoderFiles ==
    {[exists |-> FALSE, json |-> FALSE, doc |-> <<>>],
     [exists |-> TRUE, json |-> TRUE,
      doc |-> [commands |-> <<CmdTirePressure, CmdEngine>>]],
     [exists |-> TRUE, json |-> TRUE,
      doc |-> [commands |-> <<CmdRatio>>]]}

\* an identifier without definitions, 0x3E7
UNKNOWN_ID == 999

PressurePayload == <<26, 43, 60, 77, 94, 111, 112, 81>>

NegativePayload == <<255, 56, 200, 1, 128, 0, 7, 255>>

\* the 16-bit words of a TPMS pressure frame (0x0AA) are kept small, so
\* that the exact value of raw * 0.145038 stays within 31 bits
FramePayloadSamples(can_id) ==
    IF can_id = 170 THEN {PressurePayload} ELSE {PressurePayload, NegativePayload}

FramePayloads(can_id) ==
    {SubSeq(p, 1, n) : p \in FramePayloadSamples(can_id), n \in 0..PAYLOAD_BYTES}

DmInit ==
    /\ rg_file \in DecoderFiles
    /\ rg_pc = "ready"
    /\ manual_can_ids = MANUAL_CAN_IDS
    /\ obdb_data = LoadedData(rg_file)
    /\ obdb_can_ids = build_obdb_definitions(obdb_data, <<>>)
    /\ signal_definitions = merge_signal_definitions(manual_can_ids, obdb_can_ids)
    /\ dm_can_id \in DOMAIN signal_definitions \cup {UNKNOWN_ID}
    /\ dm_data \in FramePayloads(dm_can_id)
    /\ dm_pc = "call"
    /\ dm_i = 0
    /\ dm_decoded = <<>>
    /\ dm_ret = <<>>
    /\ HdrIdle
    /\ CvIdle
    /\ EbIdle
    /\ SgIdle
    /\ FdIdle
    /\ AnIdle
    /\ CbIdle
    /\ VaIdle
    /\ IgIdle
    /\ RtIdle
    /\ MnIdle
    /\ EpIdle
    /\ BfIdle
    /\ TxIdle
    /\ MgIdle

\* lines 318-319
DecodeMessageUnknown ==
    /\ dm_pc = "call"
    /\ dm_can_id \notin DOMAIN signal_definitions
    /\ dm_ret' = None
    /\ dm_pc' = "returned"
    /\ UNCHANGED <<dm_can_id, dm_data, dm_i, dm_decoded,
                   hdrVars, cvVars, ebVars, sgVars, rgVars, fdVars, anVars, cbVars, vaVars, igVars, rtVars, mnVars, epVars, bfVars, txVars, mgVars>>

\* lines 321-325
DecodeMessageBegin ==
    /\ dm_pc = "call"
    /\ dm_can_id \in DOMAIN signal_definitions
    /\ dm_decoded' = [name |-> signal_definitions[dm_can_id]["name"], signals |-> <<>>]
    /\ dm_pc' = "loop"
    /\ UNCHANGED <<dm_can_id, dm_data, dm_i, dm_ret,
                   hdrVars, cvVars, ebVars, sgVars, rgVars, fdVars, anVars, cbVars, vaVars, igVars, rtVars, mnVars, epVars, bfVars, txVars, mgVars>>

\* lines 327-330: one iteration of the loop, decode_signal returns
DecodeMessageSignal ==
    /\ dm_pc = "loop"
    /\ dm_i < Len(signal_definitions[dm_can_id]["signals"])
    /\ LET signal_def == signal_definitions[dm_can_id]["signals"][dm_i + 1]
           result     == decode_signal(dm_data, signal_def)
       IN  /\ result.kind # "raise"
           /\ dm_decoded' = [dm_decoded EXCEPT !["signals"] = AppendResult(@, result)]
    /\ dm_i' = dm_i + 1
    /\ UNCHANGED <<dm_can_id, dm_data, dm_pc, dm_ret,
                   hdrVars, cvVars, ebVars, sgVars, rgVars, fdVars, anVars, cbVars, vaVars, igVars, rtVars, mnVars, epVars, bfVars, txVars, mgVars>>

\* line 328: decode_signal raises ZeroDivisionError, which decode_message
\* does not catch
DecodeMessageSignalRaise ==
    /\ dm_pc = "loop"
    /\ dm_i < Len(signal_definitions[dm_can_id]["signals"])
    /\ LET signal_def == signal_definitions[dm_can_id]["signals"][dm_i + 1]
           result     == decode_signal(dm_data, signal_def)
       IN  /\ result.kind = "raise"
           /\ dm_ret' = result
    /\ dm_pc' = "raised"
    /\ UNCHANGED <<dm_can_id, dm_data, dm_i, dm_decoded,
                   hdrVars, cvVars, ebVars, sgVars, rgVars, fdVars, anVars, cbVars, vaVars, igVars, rtVars, mnVars, epVars, bfVars, txVars, mgVars>>

\* line 332
DecodeMessageReturn ==
    /\ dm_pc = "loop"
    /\ dm_i = Len(signal_definitions[dm_can_id]["signals"])
    /\ dm_ret' = dm_decoded
    /\ dm_pc' = "returned"
    /\ UNCHANGED <<dm_can_id, dm_data, dm_i, dm_decoded,
                   hdrVars, cvVars, ebVars, sgVars, rgVars, fdVars, anVars, cbVars, vaVars, igVars, rtVars, mnVars, epVars, bfVars, txVars, mgVars>>

DmNext ==
    \/ DecodeMessageUnknown
    \/ DecodeMessageBegin
    \/ DecodeMessageSignal
    \/ DecodeMessageSignalRaise
    \/ DecodeMessageReturn

SpecMessage == DmInit /\ [][DmNext]_vars

(***************************************************************************)
(* decode_with_obdb.py: OBDbDecoder.analyze and parse_bin_records          *)
(***************************************************************************)
UpperLetters ==
    <<"A", "B", "C", "D", "E", "F", "G", "H", "I", "J", "K", "L", "M",
      "N", "O", "P", "Q", "R", "S", "T", "U", "V", "W", "X", "Y", "Z">>

LowerLetters ==
    <<"a", "b", "c", "d", "e", "f", "g", "h", "i", "j", "k", "l", "m",
      "n", "o", "p", "q", "r", "s", "t", "u", "v", "w", "x", "y", "z">>

\* str.lower() of a text of ASCII characters
LowerChar(c) ==
    IF \E i \in 1..Len(UpperLetters) : UpperLetters[i] = c
    THEN LowerLetters[CHOOSE i \in 1..Len(UpperLetters) : UpperLetters[i] = c]
    ELSE c

Lower(s) == [i \in 1..Len(s) |-> LowerChar(s[i])]

\* struct.Struct('<QHB8B'): timestamp_us, can_id, dlc, 8 data bytes
COMPACT_FMT == <<8, 2, 1, 1, 1, 1, 1, 1, 1, 1, 1>>

\* record_struct.size
COMPACT_SIZE == 19

\* lines 250-255: the frame yielded for one 19-byte chunk
compact_frame(chunk) ==
    LET can_id     == chunk[9] + 256 * chunk[10]
        dlc        == chunk[11]
        data_bytes == SubSeq(chunk, 12, 19)
    IN  [id |-> can_id, dlc |-> dlc, data |-> Slice(data_bytes, 0, dlc)]

\* self.messages_by_id[msg['id']].append(msg), messages_by_id a defaultdict(list)
AppendById(by_id, msg) ==
    IF msg.id \in DOMAIN by_id
    THEN [by_id EXCEPT ![msg.id] = Append(@, msg)]
    ELSE (msg.id :> <<msg>>) @@ by_id

\* ---- inputs: a file named *.bin that holds compact records, or a capture
\* container (64-byte header and 24-byte records)
\* timestamp_us, can_id, dlc, data[8]
CompactSamples ==
    << <<132, 161, 7, 0, 0, 0, 0, 0>> \o <<208, 1>> \o <<2>>
         \o <<18, 52, 0, 0, 0, 0, 0, 0>>,
       <<24, 157, 7, 0, 0, 0, 0, 0>> \o <<170, 0>> \o <<8>>
         \o <<26, 43, 60, 77, 94, 111, 128, 145>>,
       <<200, 50, 60, 70, 80, 1, 0, 0>> \o <<167, 4>> \o <<9>>
         \o <<255, 254, 253, 252, 251, 250, 249, 248>> >>

\* the longest compact stream tried, in bytes
MaxCompact == 45

CompactFiles ==
    { Slice(CompactSamples[1] \o CompactSamples[2] \o CompactSamples[3]
            \o CompactSamples[1], 0, n) : n \in 0..MaxCompact }

\* capture containers with 0, 1 and 2 records, and one cut inside a record
CaptureFiles ==
    { SampleHeader(<<1, 0>>, <<0, 64, 30, 24, 36, 10, 6, 0>>)
        \o Slice(SampleStream(1, 2), 0, n) : n \in {0, 24, 34, 48} }

BinSuffixes == { <<".", "b", "i", "n">>, <<".", "B", "I", "N">> }

AnInit ==
    /\ an_suffix \in BinSuffixes
    /\ an_exists \in BOOLEAN
    /\ an_bytes \in CompactFiles \cup CaptureFiles
    /\ an_pos = 0
    /\ an_pc = "call"
    /\ messages_by_id = <<>>
    /\ an_frames = <<>>
    /\ an_stdout = <<>>
    /\ an_ret = <<>>
    /\ HdrIdle
    /\ CvIdle
    /\ EbIdle
    /\ SgIdle
    /\ RgIdle
    /\ DmIdle
    /\ FdIdle
    /\ CbIdle
    /\ VaIdle
    /\ IgIdle
    /\ RtIdle
    /\ MnIdle
    /\ EpIdle
    /\ BfIdle
    /\ TxIdle
    /\ MgIdle

\* lines 336-341: the file does not exist
AnalyzeNotFound ==
    /\ an_pc = "call"
    /\ ~an_exists
    /\ an_stdout' = <<[kind |-> "decoding"], [kind |-> "rule"], [kind |-> "not found"]>>
    /\ an_ret' = FALSE
    /\ an_pc' = "returned"
    /\ UNCHANGED <<an_suffix, an_exists, an_bytes, an_pos, messages_by_id, an_frames,
                   hdrVars, cvVars, ebVars, sgVars, rgVars, dmVars, fdVars, cbVars, vaVars, igVars, rtVars, mnVars, epVars, bfVars, txVars, mgVars>>

\* lines 336-344, 245: the suffix is .bin, the file is opened
AnalyzeBin ==
    /\ an_pc = "call"
    /\ an_exists
    /\ Lower(an_suffix) = <<".", "b", "i", "n">>
    /\ an_stdout' = <<[kind |-> "decoding"], [kind |-> "rule"]>>
    /\ an_pos' = 0
    /\ an_pc' = "bin"
    /\ UNCHANGED <<an_suffix, an_exists, an_bytes, messages_by_id, an_frames, an_ret,
                   hdrVars, cvVars, ebVars, sgVars, rgVars, dmVars, fdVars, cbVars, vaVars, igVars, rtVars, mnVars, epVars, bfVars, txVars, mgVars>>

\* lines 246-255, 345: a whole chunk is read, its frame yielded and stored
AnalyzeBinRecord ==
    /\ an_pc = "bin"
    /\ LET chunk == Slice(an_bytes, an_pos, an_pos + COMPACT_SIZE)
       IN  /\ Len(chunk) >= COMPACT_SIZE
           /\ an_frames' = Append(an_frames, compact_frame(chunk))
           /\ messages_by_id' = AppendById(messages_by_id, compact_frame(chunk))
           /\ an_pos' = an_pos + Len(chunk)
    /\ UNCHANGED <<an_suffix, an_exists, an_bytes, an_pc, an_stdout, an_ret,
                   hdrVars, cvVars, ebVars, sgVars, rgVars, dmVars, fdVars, cbVars, vaVars, igVars, rtVars, mnVars, epVars, bfVars, txVars, mgVars>>

\* lines 247-249, 366: the chunk is short (or empty), the loop is left
\* without a word and analyze returns True
AnalyzeBinEnd ==
    /\ an_pc = "bin"
    /\ LET chunk == Slice(an_bytes, an_pos, an_pos + COMPACT_SIZE)
       IN  /\ Len(chunk) < COMPACT_SIZE
           /\ an_pos' = an_pos + Len(chunk)
    /\ an_ret' = TRUE
    /\ an_pc' = "returned"
    /\ UNCHANGED <<an_suffix, an_exists, an_bytes, messages_by_id, an_frames, an_stdout,
                   hdrVars, cvVars, ebVars, sgVars, rgVars, dmVars, fdVars, cbVars, vaVars, igVars, rtVars, mnVars, epVars, bfVars, txVars, mgVars>>

AnNext ==
    \/ AnalyzeNotFound
    \/ AnalyzeBin
    \/ AnalyzeBinRecord
    \/ AnalyzeBinEnd

SpecAnalyze == AnInit /\ [][AnNext]_vars

(***************************************************************************)
(* Text and the values of CSV cells.  A text is a sequence of one-character *)
(* strings; a cell of a csv.DictReader row is a text or None (a row shorter *)
(* than the header), a missing column is a key the row does not have.       *)
(***************************************************************************)
Whitespace == {" ", "\t", "\n", "\r"}

RECURSIVE LStrip(_)
LStrip(s) == IF s # <<>> /\ s[1] \in Whitespace THEN LStrip(Tail(s)) ELSE s

RECURSIVE RStrip(_)
RStrip(s) ==
    IF s # <<>> /\ s[Len(s)] \in Whitespace THEN RStrip(SubSeq(s, 1, Len(s) - 1)) ELSE s

\* str.strip()
Strip(s) == RStrip(LStrip(s))

IsDigitChar(c, base) ==
    IF base = 10 THEN \E i \in 1..10 : HexUpper[i] = c ELSE IsHexChar(c)

\* int(): the text t without its sign
DropSign(t) == IF t # <<>> /\ t[1] \in {"+", "-"} THEN Tail(t) ELSE t

\* int(): the text t starts with a minus sign
HasMinus(t) == t # <<>> /\ t[1] = "-"

\* int(s, base): the text after surrounding whitespace and an optional sign
IntUnsigned(s) == DropSign(Strip(s))

IntNegative(s) == HasMinus(Strip(s))

\* int(u, base): u after the "0x" that base 16 allows and the one underscore
\* that may follow it
DropPrefix(u, base) ==
    IF base = 16 /\ Len(u) >= 2 /\ u[1] = "0" /\ u[2] \in {"x", "X"}
    THEN IF Len(u) >= 3 /\ u[3] = "_" THEN SubSeq(u, 4, Len(u)) ELSE SubSeq(u, 3, Len(u))
    ELSE u

\* int(s, base): the digits
IntBody(s, base) == DropPrefix(IntUnsigned(s), base)

\* digits of the base, single underscores only between digits
WellFormedDigits(b, base) ==
    /\ b # <<>>
    /\ b[1] # "_"
    /\ b[Len(b)] # "_"
    /\ \A i \in 1..Len(b) :
          IF b[i] = "_" THEN b[i + 1] # "_" ELSE IsDigitChar(b[i], base)

\* int(s, base) does not raise ValueError
ParsesInt(s, base) == WellFormedDigits(IntBody(s, base), base)

RECURSIVE Number(_, _)
Number(digits, base) ==
    IF digits = <<>> THEN 0
    ELSE base * Number(SubSeq(digits, 1, Len(digits) - 1), base) + HexValue(digits[Len(digits)])

Negated(negative, n) == IF negative THEN 0 - n ELSE n

\* int(s, base), for ParsesInt(s, base)
ParseInt(s, base) ==
    Negated(IntNegative(s), Number(SelectSeq(IntBody(s, base), LAMBDA c : c # "_"), base))

Text(s) == [kind |-> "str", chars |-> s]
IntValue(n) == [kind |-> "int", value |-> n]

\* int(text, base): the value, or the ValueError raised
TextInt(s, base) ==
    IF ParsesInt(s, base) THEN [ok |-> TRUE, value |-> ParseInt(s, base)]
    ELSE [ok |-> FALSE, error |-> "ValueError"]

\* int(v) of a cell, a default or None
CellInt(v) ==
    IF v.kind = "int" THEN [ok |-> TRUE, value |-> v.value]
    ELSE IF v.kind = "None" THEN [ok |-> FALSE, error |-> "TypeError"]
    ELSE TextInt(v.chars, 10)

\* str(v) of a cell or None
CellStr(v) == IF v.kind = "None" THEN <<"N", "o", "n", "e">> ELSE v.chars

\* n as w little-endian bytes
RECURSIVE LEBytes(_, _)
LEBytes(n, w) == IF w = 0 THEN <<>> ELSE <<n % 256>> \o LEBytes(n \div 256, w - 1)

(***************************************************************************)
(* convert_csv_to_bin.py                                                    *)
(***************************************************************************)
\* line 20: RECORD_STRUCT = struct.Struct("<QHB8B")
RECORD_STRUCT == <<8, 2, 1, 1, 1, 1, 1, 1, 1, 1, 1>>

\* lines 28-33: the three fields read inside the try, each a value or the
\* exception raised
row_fields(row) ==
    [timestamp |-> CellInt(Get(row, "timestamp_us", IntValue(0))),
     can_id    |-> TextInt(CellStr(Get(row, "can_id", Text(<<"0">>))), 16),
     dlc       |-> CellInt(Get(row, "dlc", IntValue(0)))]

AnyRaised(f) == ~(f.timestamp.ok /\ f.can_id.ok /\ f.dlc.ok)

\* line 32: except Exception: continue
row_skipped(row) == AnyRaised(row_fields(row))

\* f"byte{i}"
ByteColumn(i) == "byte" \o DecDigit(i)

\* lines 37-48: the value appended to data_bytes for the stripped text val
byte_value(val) ==
    IF val = <<>> THEN 0
    ELSE IF ParsesInt(val, 16) THEN ParseInt(val, 16)
    ELSE IF ParsesInt(val, 10) THEN ParseInt(val, 10)
    ELSE 0

\* line 36 and lines 37-48: the value appended to data_bytes for byte i
row_byte(row, i) == byte_value(Strip(CellStr(Get(row, ByteColumn(i), Text(<<>>)))))

row_data_bytes(row) == [i \in 1..8 |-> row_byte(row, i - 1)]

\* RECORD_STRUCT.pack does not raise struct.error: every value fits its
\* field (Q: the values of the model are all below 2^64)
PackFits(timestamp, can_id, dlc, data) ==
    /\ timestamp >= 0
    /\ can_id \in 0..65535
    /\ dlc \in 0..255
    /\ \A i \in 1..Len(data) : data[i] \in 0..255

\* RECORD_STRUCT.pack(timestamp, can_id, dlc, *data)
RecordPack(timestamp, can_id, dlc, data) ==
    LEBytes(timestamp, 8) \o LEBytes(can_id, 2) \o <<dlc>> \o data

FieldsFit(f, data) == PackFits(f.timestamp.value, f.can_id.value, f.dlc.value, data)

FieldsPack(f, data) == RecordPack(f.timestamp.value, f.can_id.value, f.dlc.value, data)

row_packs(row) == FieldsFit(row_fields(row), row_data_bytes(row))

row_record(row) == FieldsPack(row_fields(row), row_data_bytes(row))

\* a row of a CSV file with the columns timestamp_us,can_id,dlc,byte0..byte7
ByteRow(timestamp, can_id, dlc, b0, b1) ==
    [k \in {"timestamp_us", "can_id", "dlc"} \cup {ByteColumn(i) : i \in 0..7} |->
        IF k = "timestamp_us" THEN Text(timestamp)
        ELSE IF k = "can_id" THEN Text(can_id)
        ELSE IF k = "dlc" THEN Text(dlc)
        ELSE IF k = "byte0" THEN Text(b0)
        ELSE IF k = "byte1" THEN Text(b1)
        ELSE Text(<<"0", "0">>)]

\* a row shorter than the header: csv.DictReader fills the rest with None
ShortRow(timestamp, can_id) ==
    [k \in {"timestamp_us", "can_id", "dlc"} \cup {ByteColumn(i) : i \in 0..7} |->
        IF k = "timestamp_us" THEN Text(timestamp)
        ELSE IF k = "can_id" THEN Text(can_id)
        ELSE None]

\* a row of a file written by bin_to_csv.py: the byte columns are b0..b7
LoggerRow(timestamp, can_id, dlc) ==
    [k \in {"datetime", "timestamp_us", "can_id", "dlc"} \cup {"b" \o DecDigit(i) : i \in 0..7} |->
        IF k = "timestamp_us" THEN Text(timestamp)
        ELSE IF k = "can_id" THEN Text(can_id)
        ELSE IF k = "dlc" THEN Text(dlc)
        ELSE IF k = "datetime" THEN Text(<<>>)
        ELSE Text(<<"F", "F">>)]

RowSamples ==
    { ByteRow(<<"1", "0", "0", "0">>, <<"1", "D", "0">>, <<"2">>, <<"0", "A">>, <<"F", "F">>),
      ByteRow(<<"2", "5", "0", "0", "0", "0">>, <<"0", "a", "a">>, <<"8">>, <<" ", "7", "f">>, <<>>),
      ByteRow(<<"3", "0", "0", "0">>, <<"4", "A", "7">>, <<"1">>, <<"z", "z">>, <<"0", "x", "1", "0">>),
      ByteRow(<<"4", "0", "0", "0">>, <<"1", "D", "0">>, <<"x">>, <<"0", "1">>, <<"0", "2">>),
      ByteRow(<<>>, <<"1", "D", "0">>, <<"2">>, <<"0", "1">>, <<"0", "2">>),
      ByteRow(<<"5", "0", "0", "0">>, <<"0", "x", "G">>, <<"2">>, <<"0", "1">>, <<"0", "2">>),
      ByteRow(<<"6", "0", "0", "0">>, <<"1", "0", "4", "A", "7">>, <<"2">>, <<"0", "1">>, <<"0", "2">>),
      ByteRow(<<"7", "0", "0", "0">>, <<"1", "D", "0">>, <<"2">>, <<"1", "F", "F">>, <<"0", "2">>),
      ByteRow(<<"8", "0", "0", "0">>, <<"1", "D", "0">>, <<"-", "1">>, <<"0", "1">>, <<"0", "2">>),
      ByteRow(<<"-", "9">>, <<"1", "D", "0">>, <<"2">>, <<"0", "1">>, <<"0", "2">>),
      ByteRow(<<"9", "0", "0", "0">>, <<"1", "D", "0">>, <<"3", "0", "0">>, <<"0", "1">>, <<"0", "2">>),
      ShortRow(<<"9", "5", "0", "0">>, <<"1", "D", "0">>),
      LoggerRow(<<"9", "9", "0", "0">>, <<"4", "A", "7">>, <<"8">>) }

MaxRows == 2

CsvFiles == SeqsUpTo(RowSamples, MaxRows)

CbInit ==
    /\ cb_rows \in CsvFiles
    /\ cb_i = 0
    /\ f_out = <<>>
    /\ written = 0
    /\ cb_pc = "loop"
    /\ cb_stdout = <<>>
    /\ HdrIdle
    /\ CvIdle
    /\ EbIdle
    /\ SgIdle
    /\ RgIdle
    /\ DmIdle
    /\ FdIdle
    /\ AnIdle
    /\ VaIdle
    /\ IgIdle
    /\ RtIdle
    /\ MnIdle
    /\ EpIdle
    /\ BfIdle
    /\ TxIdle
    /\ MgIdle

\* lines 27-33: a row whose timestamp, can_id or dlc raises is passed over
ConvertRowSkip ==
    /\ cb_pc = "loop"
    /\ cb_i < Len(cb_rows)
    /\ row_skipped(cb_rows[cb_i + 1])
    /\ cb_i' = cb_i + 1
    /\ UNCHANGED <<cb_rows, f_out, written, cb_pc, cb_stdout>>
    /\ UNCHANGED <<hdrVars, cvVars, ebVars, sgVars, rgVars, dmVars, fdVars, anVars, vaVars, igVars, rtVars, mnVars, epVars, bfVars, txVars, mgVars>>

\* lines 27-52: a row is packed and written
ConvertRowWrite ==
    /\ cb_pc = "loop"
    /\ cb_i < Len(cb_rows)
    /\ ~row_skipped(cb_rows[cb_i + 1])
    /\ row_packs(cb_rows[cb_i + 1])
    /\ cb_i' = cb_i + 1
    /\ f_out' = f_out \o row_record(cb_rows[cb_i + 1])
    /\ written' = written + 1
    /\ UNCHANGED <<cb_rows, cb_pc, cb_stdout>>
    /\ UNCHANGED <<hdrVars, cvVars, ebVars, sgVars, rgVars, dmVars, fdVars, anVars, vaVars, igVars, rtVars, mnVars, epVars, bfVars, txVars, mgVars>>

\* line 50: pack raises struct.error, which nothing catches: convert and the
\* program end there, the output file keeps what was written
ConvertRowRaise ==
    /\ cb_pc = "loop"
    /\ cb_i < Len(cb_rows)
    /\ ~row_skipped(cb_rows[cb_i + 1])
    /\ ~row_packs(cb_rows[cb_i + 1])
    /\ cb_i' = cb_i + 1
    /\ cb_pc' = "raised"
    /\ UNCHANGED <<cb_rows, f_out, written, cb_stdout>>
    /\ UNCHANGED <<hdrVars, cvVars, ebVars, sgVars, rgVars, dmVars, fdVars, anVars, vaVars, igVars, rtVars, mnVars, epVars, bfVars, txVars, mgVars>>

\* line 53: the rows are exhausted
ConvertReturn ==
    /\ cb_pc = "loop"
    /\ cb_i = Len(cb_rows)
    /\ cb_pc' = "returned"
    /\ cb_stdout' = <<[kind |-> "converted", records |-> written]>>
    /\ UNCHANGED <<cb_rows, cb_i, f_out, written>>
    /\ UNCHANGED <<hdrVars, cvVars, ebVars, sgVars, rgVars, dmVars, fdVars, anVars, vaVars, igVars, rtVars, mnVars, epVars, bfVars, txVars, mgVars>>

CbNext ==
    \/ ConvertRowSkip
    \/ ConvertRowWrite
    \/ ConvertRowRaise
    \/ ConvertReturn

SpecConvert == CbInit /\ [][CbNext]_vars

(***************************************************************************)
(* The pattern of parse_can_message (both tools, re.search):               *)
(*   ID:\s*0x([0-9A-Fa-f]+)\s+DLC:\s*(\d+)\s+Data:\s*([0-9A-Fa-f\s]+)       *)
(***************************************************************************)
HexChars == {HexUpper[i] : i \in 1..Len(HexUpper)} \cup {HexLower[i] : i \in 1..Len(HexLower)}
DigitChars == {DecDigit(d) : d \in 0..9}

\* s has the text lit at position p
HasAt(s, p, lit) == p >= 1 /\ p + Len(lit) - 1 <= Len(s) /\ SubSeq(s, p, p + Len(lit) - 1) = lit

\* lit in s
Contains(s, lit) == \E p \in 1..Len(s) : HasAt(s, p, lit)

\* str.startswith
StartsWithText(s, lit) == HasAt(s, 1, lit)

\* the position after the longest run of characters of class that starts at p
RunEnd(s, p, class) ==
    CHOOSE q \in p..(Len(s) + 1) :
        /\ \A k \in p..(q - 1) : s[k] \in class
        /\ q = Len(s) + 1 \/ s[q] \notin class

TextID == <<"I", "D", ":">>
Text0x == <<"0", "x">>
TextDLC == <<"D", "L", "C", ":">>
TextData == <<"D", "a", "t", "a", ":">>
TextTimestampUs == <<"t", "i", "m", "e", "s", "t", "a", "m", "p", "_", "u", "s">>

\* the match of the pattern that starts at position p, if there is one: no
\* quantifier of the pattern can give back a character (what follows a run
\* is never of the run's class), except the \s* before group 3, which gives
\* one back when no hex digit follows the whitespace
MatchAt(s, p) ==
    LET a == p + 3
        b == RunEnd(s, a, Whitespace)
        c == b + 2
        d == RunEnd(s, c, HexChars)
        e == RunEnd(s, d, Whitespace)
        f == e + 4
        g == RunEnd(s, f, Whitespace)
        h == RunEnd(s, g, DigitChars)
        i == RunEnd(s, h, Whitespace)
        j == i + 5
        w == RunEnd(s, j, Whitespace)
        k == RunEnd(s, j, HexChars \cup Whitespace)
    IN  IF /\ HasAt(s, p, TextID)
           /\ HasAt(s, b, Text0x)
           /\ d > c
           /\ e > d
           /\ HasAt(s, e, TextDLC)
           /\ h > g
           /\ i > h
           /\ HasAt(s, i, TextData)
           /\ k > j
        THEN [ok |-> TRUE,
              group1 |-> SubSeq(s, c, d - 1),
              group2 |-> SubSeq(s, g, h - 1),
              group3 |-> SubSeq(s, IF w < k THEN w ELSE k - 1, k - 1)]
        ELSE [ok |-> FALSE]

\* re.search(pattern, line): the leftmost match
Search(s) ==
    LET starts == {p \in 1..Len(s) : MatchAt(s, p).ok}
    IN  IF starts = {} THEN [ok |-> FALSE]
        ELSE MatchAt(s, CHOOSE p \in starts : \A o \in starts : p <= o)

\* the position after the first whitespace-free run of t
TokenEnd(t) ==
    CHOOSE q \in 1..(Len(t) + 1) :
        /\ \A k \in 1..(q - 1) : t[k] \notin Whitespace
        /\ q = Len(t) + 1 \/ t[q] \in Whitespace

\* str.split()
RECURSIVE Split(_)
Split(s) ==
    LET t == LStrip(s)
    IN  IF t = <<>> THEN <<>>
        ELSE <<SubSeq(t, 1, TokenEnd(t) - 1)>> \o Split(SubSeq(t, TokenEnd(t), Len(t)))

(***************************************************************************)
(* validate_can.py                                                          *)
(***************************************************************************)
\* lines 29-54
CANValidator_parse_can_message(line) ==
    LET match      == Search(line)
        can_id     == ParseInt(match.group1, 16)
        dlc        == ParseInt(match.group2, 10)
        data_str   == Strip(match.group3)
        tokens     == Slice(Split(data_str), 0, 8)
        data_bytes == [n \in 1..Len(tokens) |-> ParseInt(tokens[n], 16)]
    IN  IF ~match.ok THEN [ok |-> FALSE, error |-> "No CAN pattern match"]
        ELSE IF dlc > 8 THEN [ok |-> FALSE, error |-> "Invalid DLC: " \o StrInt(dlc)]
        ELSE IF Len(data_bytes) < dlc
        THEN [ok |-> FALSE,
              error |-> "Data length mismatch: DLC=" \o StrInt(dlc) \o ", got "
                        \o StrInt(Len(data_bytes)) \o " bytes"]
        ELSE [ok |-> TRUE,
              msg |-> [id |-> can_id, dlc |-> dlc, data |-> Slice(data_bytes, 0, dlc),
                       raw_line |-> Strip(line)]]

\* lines 56-87; the byte loop (lines 63-75) is the one of
\* convert_csv_to_bin.convert
CANValidator_parse_csv_row(row) ==
    LET can_id == TextInt(Strip(CellStr(Get(row, "can_id", Text(<<>>)))), 16)
        dlc    == CellInt(Get(row, "dlc", IntValue(0)))
        data_bytes == row_data_bytes(row)
    IN  IF ~can_id.ok \/ ~dlc.ok THEN [ok |-> FALSE, error |-> "CSV parse error"]
        ELSE IF dlc.value > 8 THEN [ok |-> FALSE, error |-> "Invalid DLC: " \o StrInt(dlc.value)]
        ELSE [ok |-> TRUE,
              msg |-> [id |-> can_id.value, dlc |-> dlc.value,
                       data |-> SliceTo(data_bytes, dlc.value), raw_line |-> None]]

\* lines 89-103: one record of parse_bin_records
CANValidator_bin_record(chunk) ==
    LET frame == compact_frame(chunk)
    IN  [ok |-> TRUE,
         msg |-> [id |-> frame.id, dlc |-> frame.dlc, data |-> frame.data, raw_line |-> None]]

\* counter[k] += 1
\* the count started again at 1
Bump_Restart(counter, k) == Put(counter, k, 1)

Bump(counter, k) == Put(counter, k, Get(counter, k, 0) + 1)

\* the five statements after 'if msg:'
CountValid(st, msg) ==
    [st EXCEPT !.valid_can_messages = @ + 1,
               !.unique_ids = @ \cup {msg.id},
               !.id_counts = Bump(@, msg.id),
               !.dlc_distribution = Bump(@, msg.dlc)]

\* the else branch: invalid_messages += 1 and the first 10 errors are kept
CountInvalid_NoCount(st, line_num, error, raw) ==
    [st EXCEPT !.parse_errors = IF Len(@) < 10 THEN Append(@, <<line_num, error, raw>>) ELSE @]

CountInvalid(st, line_num, error, raw) ==
    [st EXCEPT !.invalid_messages = @ + 1,
               !.parse_errors = IF Len(@) < 10 THEN Append(@, <<line_num, error, raw>>) ELSE @]

\* stats['total_lines'] += 1
CountLine(st) == [st EXCEPT !.total_lines = @ + 1]

\* lines 114 and 130: the branch validate takes for the file
validate_path(file) ==
    IF Lower(file.suffix) = <<".", "b", "i", "n">> THEN "bin"
    ELSE IF StartsWithText(Lower(file.first_line), TextTimestampUs) THEN "csv"
    ELSE "text"

\* line 147: the line is passed over before parsing
line_skipped(line) == Strip(line) = <<>> \/ ~Contains(line, TextID)

\* line 158: 'ID:' in line and 'DLC:' in line
looks_like_can(line) == Contains(line, TextID) /\ Contains(line, TextDLC)
\* lines of a device log
\* valid, 2 bytes: 'I (123) CAN: ID: 0x1D0 DLC: 2 Data: 0A FF\n'
Line1 == <<"I", " ", "(", "1", "2", "3", ")", " ", "C", "A", "N", ":", " ", "I", "D", ":", " ", "0", "x", "1", "D", "0", " ", "D", "L", "C", ":", " ", "2", " ", "D", "a", "t", "a", ":", " ", "0", "A", " ", "F", "F", "\n">>
\* valid, 9 tokens for dlc 8: 'ID:0x0aa DLC:8 Data:01 02 03 04 05 06 07 08 09\n'
Line2 == <<"I", "D", ":", "0", "x", "0", "a", "a", " ", "D", "L", "C", ":", "8", " ", "D", "a", "t", "a", ":", "0", "1", " ", "0", "2", " ", "0", "3", " ", "0", "4", " ", "0", "5", " ", "0", "6", " ", "0", "7", " ", "0", "8", " ", "0", "9", "\n">>
\* dlc above 8: 'ID: 0x4A7 DLC: 9 Data: 00\n'
Line3 == <<"I", "D", ":", " ", "0", "x", "4", "A", "7", " ", "D", "L", "C", ":", " ", "9", " ", "D", "a", "t", "a", ":", " ", "0", "0", "\n">>
\* fewer tokens than dlc: 'ID: 0x4A7 DLC: 3 Data: 01 02\n'
Line4 == <<"I", "D", ":", " ", "0", "x", "4", "A", "7", " ", "D", "L", "C", ":", " ", "3", " ", "D", "a", "t", "a", ":", " ", "0", "1", " ", "0", "2", "\n">>
\* a boot message: 'I (10) boot: ESP-IDF v5\n'
Line5 == <<"I", " ", "(", "1", "0", ")", " ", "b", "o", "o", "t", ":", " ", "E", "S", "P", "-", "I", "D", "F", " ", "v", "5", "\n">>
\* an empty line: '\n'
Line6 == <<"\n">>
\* ID: without DLC:: 'ID: 0x12 Data: 00\n'
Line7 == <<"I", "D", ":", " ", "0", "x", "1", "2", " ", "D", "a", "t", "a", ":", " ", "0", "0", "\n">>
\* ID: and DLC: but no 0x: 'ID: 1D0 DLC: 2 Data: 00 11\n'
Line8 == <<"I", "D", ":", " ", "1", "D", "0", " ", "D", "L", "C", ":", " ", "2", " ", "D", "a", "t", "a", ":", " ", "0", "0", " ", "1", "1", "\n">>
\* a token above FF: 'ID: 0x1D0 DLC: 1 Data: 1FF\n'
Line9 == <<"I", "D", ":", " ", "0", "x", "1", "D", "0", " ", "D", "L", "C", ":", " ", "1", " ", "D", "a", "t", "a", ":", " ", "1", "F", "F", "\n">>
\* dlc 0, no tokens: 'ID: 0x1D0 DLC: 0 Data: \n'
Line10 == <<"I", "D", ":", " ", "0", "x", "1", "D", "0", " ", "D", "L", "C", ":", " ", "0", " ", "D", "a", "t", "a", ":", " ", "\n">>
\* a data row of a file written by bin_to_csv.py: ',1000,1D0,2,0A,FF,00,00,00,00,00,00\n'
Line11 == <<",", "1", "0", "0", "0", ",", "1", "D", "0", ",", "2", ",", "0", "A", ",", "F", "F", ",", "0", "0", ",", "0", "0", ",", "0", "0", ",", "0", "0", ",", "0", "0", ",", "0", "0", "\n">>

LineSamples == {Line1, Line2, Line3, Line4, Line5, Line6, Line7, Line8, Line9, Line10, Line11}

\* the header of a CSV file with the columns timestamp_us,can_id,dlc,byte0..byte7
CsvHeaderLine == <<"t", "i", "m", "e", "s", "t", "a", "m", "p", "_", "u", "s", ",", "c", "a", "n", "_", "i", "d", ",", "d", "l", "c", ",", "b", "y", "t", "e", "0", ",", "b", "y", "t", "e", "1", ",", "b", "y", "t", "e", "2", ",", "b", "y", "t", "e", "3", ",", "b", "y", "t", "e", "4", ",", "b", "y", "t", "e", "5", ",", "b", "y", "t", "e", "6", ",", "b", "y", "t", "e", "7", "\n">>

MaxLines == 2

TextLogs == SeqsUpTo(LineSamples, MaxLines)

BinLogs == { Slice(CompactSamples[1] \o CompactSamples[2] \o CompactSamples[3], 0, n) : n \in {0, 19, 43, 57} }

LogFile(suffix, bytes, first_line, rows, lines) ==
    [suffix |-> suffix, bytes |-> bytes, first_line |-> first_line, rows |-> rows, lines |-> lines]

LogFiles ==
    { LogFile(<<".", "b", "i", "n">>, bytes, <<>>, <<>>, <<>>) : bytes \in BinLogs }
    \cup { LogFile(<<".", "c", "s", "v">>, <<>>, CsvHeaderLine, rows, <<>>) : rows \in CsvFiles }
    \cup { LogFile(<<".", "l", "o", "g">>, <<>>, IF lines = <<>> THEN <<>> ELSE lines[1], <<>>, lines) :
              lines \in TextLogs }

VaInit ==
    /\ \E file \in LogFiles, exists \in BOOLEAN :
          va_file = [exists |-> exists] @@ file
    /\ va_pos = 0
    /\ va_pc = "call"
    /\ messages = <<>>
    /\ stats = [total_lines |-> 0, valid_can_messages |-> 0, invalid_messages |-> 0,
                unique_ids |-> {}, id_counts |-> <<>>, dlc_distribution |-> <<>>,
                parse_errors |-> <<>>]
    /\ va_ret = <<>>
    /\ va_stdout = <<>>
    /\ HdrIdle
    /\ CvIdle
    /\ EbIdle
    /\ SgIdle
    /\ RgIdle
    /\ DmIdle
    /\ FdIdle
    /\ AnIdle
    /\ CbIdle
    /\ IgIdle
    /\ RtIdle
    /\ MnIdle
    /\ EpIdle
    /\ BfIdle
    /\ TxIdle
    /\ MgIdle

\* lines 107-112
ValidateNotFound ==
    /\ va_pc = "call"
    /\ ~va_file.exists
    /\ va_stdout' = <<[kind |-> "validating"], [kind |-> "rule"], [kind |-> "not found"]>>
    /\ va_ret' = FALSE
    /\ va_pc' = "returned"
    /\ UNCHANGED <<va_file, va_pos, messages, stats>>
    /\ UNCHANGED <<hdrVars, cvVars, ebVars, sgVars, rgVars, dmVars, fdVars, anVars, cbVars, igVars, rtVars, mnVars, epVars, bfVars, txVars, mgVars>>

\* lines 107-133: the file is opened on one of the three branches
ValidateOpen ==
    /\ va_pc = "call"
    /\ va_file.exists
    /\ va_stdout' = <<[kind |-> "validating"], [kind |-> "rule"]>>
    /\ va_pc' = validate_path(va_file)
    /\ UNCHANGED <<va_file, va_pos, messages, stats, va_ret>>
    /\ UNCHANGED <<hdrVars, cvVars, ebVars, sgVars, rgVars, dmVars, fdVars, anVars, cbVars, igVars, rtVars, mnVars, epVars, bfVars, txVars, mgVars>>

\* lines 115-122 with parse_bin_records: one 19-byte record
ValidateBinRecord ==
    /\ va_pc = "bin"
    /\ Len(va_file.bytes) - va_pos * COMPACT_SIZE >= COMPACT_SIZE
    /\ LET r == CANValidator_bin_record(
                    SubSeq(va_file.bytes, va_pos * COMPACT_SIZE + 1, (va_pos + 1) * COMPACT_SIZE))
       IN  /\ messages' = Append(messages, r.msg)
           /\ stats' = CountValid(CountLine(stats), r.msg)
    /\ va_pos' = va_pos + 1
    /\ UNCHANGED <<va_file, va_pc, va_ret, va_stdout>>
    /\ UNCHANGED <<hdrVars, cvVars, ebVars, sgVars, rgVars, dmVars, fdVars, anVars, cbVars, igVars, rtVars, mnVars, epVars, bfVars, txVars, mgVars>>

\* lines 134-148: one row of the CSV reader
ValidateCsvRow ==
    /\ va_pc = "csv"
    /\ va_pos < Len(va_file.rows)
    /\ LET row == va_file.rows[va_pos + 1]
           r   == CANValidator_parse_csv_row(row)
       IN  IF r.ok
           THEN /\ messages' = Append(messages, r.msg)
                /\ stats' = CountValid(CountLine(stats), r.msg)
           ELSE /\ stats' = CountInvalid(CountLine(stats), va_pos + 1, r.error, row)
                /\ UNCHANGED messages
    /\ va_pos' = va_pos + 1
    /\ UNCHANGED <<va_file, va_pc, va_ret, va_stdout>>
    /\ UNCHANGED <<hdrVars, cvVars, ebVars, sgVars, rgVars, dmVars, fdVars, anVars, cbVars, igVars, rtVars, mnVars, epVars, bfVars, txVars, mgVars>>

\* lines 150-167: one line of a text log
ValidateTextLine ==
    /\ va_pc = "text"
    /\ va_pos < Len(va_file.lines)
    /\ LET line == va_file.lines[va_pos + 1]
           r    == CANValidator_parse_can_message(line)
       IN  IF line_skipped(line)
           THEN /\ stats' = CountLine(stats)
                /\ UNCHANGED messages
           ELSE IF r.ok
           THEN /\ messages' = Append(messages, r.msg)
                /\ stats' = CountValid(CountLine(stats), r.msg)
           ELSE IF looks_like_can(line)
           THEN /\ stats' = CountInvalid(CountLine(stats), va_pos + 1, r.error, Strip(line))
                /\ UNCHANGED messages
           ELSE /\ stats' = CountLine(stats)
                /\ UNCHANGED messages
    /\ va_pos' = va_pos + 1
    /\ UNCHANGED <<va_file, va_pc, va_ret, va_stdout>>
    /\ UNCHANGED <<hdrVars, cvVars, ebVars, sgVars, rgVars, dmVars, fdVars, anVars, cbVars, igVars, rtVars, mnVars, epVars, bfVars, txVars, mgVars>>

\* line 169: the records, rows or lines are exhausted
ValidateReturn ==
    /\ \/ va_pc = "bin" /\ Len(va_file.bytes) - va_pos * COMPACT_SIZE < COMPACT_SIZE
       \/ va_pc = "csv" /\ va_pos = Len(va_file.rows)
       \/ va_pc = "text" /\ va_pos = Len(va_file.lines)
    /\ va_ret' = TRUE
    /\ va_pc' = "returned"
    /\ UNCHANGED <<va_file, va_pos, messages, stats, va_stdout>>
    /\ UNCHANGED <<hdrVars, cvVars, ebVars, sgVars, rgVars, dmVars, fdVars, anVars, cbVars, igVars, rtVars, mnVars, epVars, bfVars, txVars, mgVars>>

VaNext ==
    \/ ValidateNotFound
    \/ ValidateOpen
    \/ ValidateBinRecord
    \/ ValidateCsvRow
    \/ ValidateTextLine
    \/ ValidateReturn

SpecValidate == VaInit /\ [][VaNext]_vars

(***************************************************************************)
(* decode_with_obdb.py: the parsers of a text line and of a CSV row         *)
(***************************************************************************)
\* lines 196-212
OBDbDecoder_parse_can_message(line) ==
    LET match      == Search(line)
        can_id     == ParseInt(match.group1, 16)
        dlc        == ParseInt(match.group2, 10)
        data_str   == Strip(match.group3)
        tokens     == Slice(Split(data_str), 0, 8)
        data_bytes == [n \in 1..Len(tokens) |-> ParseInt(tokens[n], 16)]
    IN  IF ~match.ok THEN [ok |-> FALSE, raised |-> FALSE]
        ELSE [ok |-> TRUE,
              msg |-> [id |-> can_id, dlc |-> dlc, data |-> Slice(data_bytes, 0, dlc)]]

\* lines 214-240; row.get(f'byte{i}', '').strip() has no str() around the
\* cell: a cell that is None raises AttributeError, which nothing catches
OBDbDecoder_parse_csv_row(row) ==
    LET can_id == TextInt(Strip(CellStr(Get(row, "can_id", Text(<<>>)))), 16)
        dlc    == CellInt(Get(row, "dlc", IntValue(0)))
        data_bytes == row_data_bytes(row)
    IN  IF ~can_id.ok \/ ~dlc.ok THEN [ok |-> FALSE, raised |-> FALSE]
        ELSE IF \E i \in 0..7 : Get(row, ByteColumn(i), Text(<<>>)).kind = "None"
        THEN [ok |-> FALSE, raised |-> TRUE, error |-> "AttributeError"]
        ELSE [ok |-> TRUE,
              msg |-> [id |-> can_id.value, dlc |-> dlc.value,
                       data |-> SliceTo(data_bytes, dlc.value)]]

\* lines 250-255: one record of parse_bin_records
OBDbDecoder_bin_record(chunk) == [ok |-> TRUE, msg |-> compact_frame(chunk)]

\* a row with dlc but without the last byte cells
PartialRow(timestamp, can_id, dlc, b0) ==
    [k \in {"timestamp_us", "can_id", "dlc"} \cup {ByteColumn(i) : i \in 0..7} |->
        IF k = "timestamp_us" THEN Text(timestamp)
        ELSE IF k = "can_id" THEN Text(can_id)
        ELSE IF k = "dlc" THEN Text(dlc)
        ELSE IF k = "byte0" THEN Text(b0)
        ELSE None]

\* the largest dlc byte of the compact records parsed
MaxDlcByte == 10

\* 19-byte compact records: timestamp 1000, a can_id, a dlc byte, 8 data bytes
ChunkSamples ==
    { LEBytes(1000, 8) \o LEBytes(can_id, 2) \o <<dlc>> \o <<1, 2, 3, 4, 5, 6, 7, 255>> :
        can_id \in {170, 464, 65535}, dlc \in 0..MaxDlcByte }

IngestInputs ==
    { [format |-> "bin", chunk |-> c] : c \in ChunkSamples }
    \cup { [format |-> "csv", row |-> r] :
             r \in RowSamples \cup {PartialRow(<<"1">>, <<"1", "D", "0">>, <<"2">>, <<"0", "A">>)} }
    \cup { [format |-> "text", line |-> l] : l \in LineSamples }

IgInit ==
    /\ ig_input \in IngestInputs
    /\ ig_tool = "none"
    /\ ig_pc = "input"
    /\ ig_result = <<>>
    /\ HdrIdle
    /\ CvIdle
    /\ EbIdle
    /\ SgIdle
    /\ RgIdle
    /\ DmIdle
    /\ FdIdle
    /\ AnIdle
    /\ CbIdle
    /\ VaIdle
    /\ RtIdle
    /\ MnIdle
    /\ EpIdle
    /\ BfIdle
    /\ TxIdle
    /\ MgIdle

\* the parser of tool for the input's format gives result
Parsed(format, tool, result) ==
    /\ ig_pc = "input"
    /\ ig_input.format = format
    /\ ig_tool' = tool
    /\ ig_result' = result
    /\ ig_pc' = "parsed"
    /\ UNCHANGED ig_input
    /\ UNCHANGED <<hdrVars, cvVars, ebVars, sgVars, rgVars, dmVars, fdVars, anVars, cbVars, vaVars, rtVars, mnVars, epVars, bfVars, txVars, mgVars>>

DecoderParseBin == Parsed("bin", "decoder", OBDbDecoder_bin_record(ig_input.chunk))

DecoderParseCsv == Parsed("csv", "decoder", OBDbDecoder_parse_csv_row(ig_input.row))

DecoderParseText == Parsed("text", "decoder", OBDbDecoder_parse_can_message(ig_input.line))

ValidatorParseBin == Parsed("bin", "validator", CANValidator_bin_record(ig_input.chunk))

ValidatorParseCsv == Parsed("csv", "validator", CANValidator_parse_csv_row(ig_input.row))

ValidatorParseText == Parsed("text", "validator", CANValidator_parse_can_message(ig_input.line))

IgNext ==
    \/ DecoderParseBin
    \/ DecoderParseCsv
    \/ DecoderParseText
    \/ ValidatorParseBin
    \/ ValidatorParseCsv
    \/ ValidatorParseText

SpecIngest == IgInit /\ [][IgNext]_vars

(***************************************************************************)
(* Encoding and decoding with the three layouts.  The compact record is    *)
(* packed by convert_csv_to_bin.py and unpacked by the readers of .bin     *)
(* files; the Capture Container is written by the logger firmware, whose   *)
(* packing is taken from the layouts HEADER_FMT and RECORD_FMT.            *)
(***************************************************************************)
\* convert_csv_to_bin.py line 49: RECORD_STRUCT.pack(timestamp, can_id, dlc, *data)
\* with the timestamp a Python int of any size below 2^64
compact_pack(timestamp, can_id, dlc, data) ==
    PackLittleEndian(timestamp, 8) \o LEBytes(can_id, 2) \o <<dlc>> \o data

\* the identifier read from one byte only
compact_unpack_ShortId(chunk) ==
    [timestamp_us |-> LittleEndian(SubSeq(chunk, 1, 8)),
     can_id       |-> chunk[9],
     dlc          |-> chunk[11],
     data_bytes   |-> SubSeq(chunk, 12, 19)]

\* decode_with_obdb.py line 250:
\* timestamp_us, can_id, dlc, *data_bytes = record_struct.unpack(chunk)
compact_unpack(chunk) ==
    [timestamp_us |-> LittleEndian(SubSeq(chunk, 1, 8)),
     can_id       |-> chunk[9] + 256 * chunk[10],
     dlc          |-> chunk[11],
     data_bytes   |-> SubSeq(chunk, 12, 19)]

\* struct.pack(HEADER_FMT, ...) of a header
pack_header(h) ==
    HeaderBytes(h.magic, PackLittleEndian(h.version, 2), PackLittleEndian(h.header_size, 2),
                PackLittleEndian(h.log_start_unix_us, 8),
                PackLittleEndian(h.log_start_monotonic_us, 8),
                PackLittleEndian(h.record_size, 4), PackLittleEndian(h.flags, 4), h.reserved)

\* struct.pack(RECORD_FMT, ...) of a record
pack_record(r) ==
    PackLittleEndian(r.timestamp_us, 8) \o PackLittleEndian(r.can_id, 4)
    \o <<r.dlc>> \o <<r.flags>> \o r.payload \o PackLittleEndian(r.reserved, 2)

\* values of 64-bit, 32-bit, 16-bit and 8-bit fields
U64Samples == { <<>>, LittleEndian(<<0, 64, 30, 24, 36, 10, 6, 0>>), LittleEndian(Repeat(255, 8)) }
U32Samples == { BigOf(464), LittleEndian(<<167, 4, 1, 0>>), LittleEndian(Repeat(255, 4)) }
U16Samples == { 0, 464, 65535 }
U8Samples  == { 0, 9, 255 }
PayloadFieldSamples == { <<18, 52, 0, 0, 0, 0, 0, 0>>, <<255, 254, 253, 252, 251, 250, 249, 248>> }

ValidHeaders ==
    { [kind |-> "header", magic |-> m, version |-> BigOf(VERSION),
       header_size |-> BigOf(HEADER_SIZE), log_start_unix_us |-> u,
       log_start_monotonic_us |-> mo, record_size |-> BigOf(RECORD_SIZE),
       flags |-> fl, reserved |-> res] :
        m \in {GoodMagic, MAGIC_PREFIX \o <<65>>}, u \in U64Samples, mo \in U64Samples,
        fl \in U32Samples, res \in ReservedSamples }

CaptureRecords ==
    { [kind |-> "capture", timestamp_us |-> t, can_id |-> c, dlc |-> d, flags |-> fl,
       payload |-> p, reserved |-> BigOf(rs)] :
        t \in U64Samples, c \in U32Samples, d \in U8Samples, fl \in U8Samples,
        p \in PayloadFieldSamples, rs \in {0, 65535} }

CompactRecords ==
    { [kind |-> "compact", timestamp_us |-> t, can_id |-> c, dlc |-> d, data_bytes |-> p] :
        t \in U64Samples, c \in U16Samples, d \in U8Samples, p \in PayloadFieldSamples }

RtInit ==
    /\ rt_value \in ValidHeaders \cup CaptureRecords \cup CompactRecords
    /\ rt_bytes = <<>>
    /\ rt_decoded = <<>>
    /\ rt_pc = "fields"
    /\ HdrIdle
    /\ CvIdle
    /\ EbIdle
    /\ SgIdle
    /\ RgIdle
    /\ DmIdle
    /\ FdIdle
    /\ AnIdle
    /\ CbIdle
    /\ VaIdle
    /\ IgIdle
    /\ MnIdle
    /\ EpIdle
    /\ BfIdle
    /\ TxIdle
    /\ MgIdle

Encoded(kind, bytes) ==
    /\ rt_pc = "fields"
    /\ rt_value.kind = kind
    /\ rt_bytes' = bytes
    /\ rt_pc' = "encoded"
    /\ UNCHANGED <<rt_value, rt_decoded>>
    /\ UNCHANGED <<hdrVars, cvVars, ebVars, sgVars, rgVars, dmVars, fdVars, anVars, cbVars, vaVars, igVars, mnVars, epVars, bfVars, txVars, mgVars>>

Decoded(kind, fields) ==
    /\ rt_pc = "encoded"
    /\ rt_value.kind = kind
    /\ rt_decoded' = fields
    /\ rt_pc' = "decoded"
    /\ UNCHANGED <<rt_value, rt_bytes>>
    /\ UNCHANGED <<hdrVars, cvVars, ebVars, sgVars, rgVars, dmVars, fdVars, anVars, cbVars, vaVars, igVars, mnVars, epVars, bfVars, txVars, mgVars>>

EncodeHeader == Encoded("header", pack_header(rt_value))

EncodeRecord == Encoded("capture", pack_record(rt_value))

EncodeCompact ==
    Encoded("compact", compact_pack(rt_value.timestamp_us, rt_value.can_id, rt_value.dlc,
                                    rt_value.data_bytes))

DecodeHeader == Decoded("header", parse_header(rt_bytes))

DecodeRecord == Decoded("capture", unpack_record(rt_bytes))

DecodeCompact == Decoded("compact", compact_unpack(rt_bytes))

RtNext ==
    \/ EncodeHeader
    \/ EncodeRecord
    \/ EncodeCompact
    \/ DecodeHeader
    \/ DecodeRecord
    \/ DecodeCompact

SpecRoundTrip == RtInit /\ [][RtNext]_vars

(***************************************************************************)
(* bin_to_csv.py: main.  The arguments are parsed; convert_file runs as    *)
(* modelled above, and opening the output file may fail as well.           *)
(***************************************************************************)
\* the input files tried: every header, with no record, a whole record, a
\* truncated record, and a whole record followed by a truncated one
MainStreams == {0, 24, 30, 47, 59}
MainFiles ==
    { h \o Slice(SampleStream(1, 3), 0, n) : h \in ConvHeaders, n \in MainStreams }

MnInit ==
    /\ \/ /\ mn_is_file = FALSE
          /\ mn_file = <<>>
       \/ /\ mn_is_file = TRUE
          /\ mn_file \in MainFiles
    /\ mn_pc = "start"
    /\ mn_ret = <<>>
    /\ mn_out = <<>>
    /\ HdrIdle
    /\ CvIdle
    /\ EbIdle
    /\ SgIdle
    /\ RgIdle
    /\ DmIdle
    /\ FdIdle
    /\ AnIdle
    /\ CbIdle
    /\ VaIdle
    /\ IgIdle
    /\ RtIdle
    /\ EpIdle
    /\ BfIdle
    /\ TxIdle
    /\ MgIdle

\* main prints and returns code
MainExit(code, printed) ==
    /\ mn_ret' = code
    /\ mn_out' = mn_out \o printed
    /\ mn_pc' = "exited"
    /\ UNCHANGED <<mn_is_file, mn_file>>
    /\ UNCHANGED <<hdrVars, cvVars, ebVars, sgVars, rgVars, dmVars, fdVars, anVars, cbVars, vaVars, igVars, rtVars, epVars, bfVars, txVars, mgVars>>

\* lines 126-129: the input path is not an existing file
MainNotFound ==
    /\ mn_pc = "start"
    /\ ~mn_is_file
    /\ MainExit(1, << <<"stderr", "Input file not found">> >>)

\* lines 131-138: the output path is chosen and convert_file called
MainConvert ==
    /\ mn_pc = "start"
    /\ mn_is_file
    /\ mn_pc' = "converting"
    /\ cv_file' = mn_file
    /\ cv_pc' = "open"
    /\ cv_dst' = <<"stale">>
    /\ UNCHANGED <<mn_is_file, mn_file, mn_ret, mn_out>>
    /\ UNCHANGED <<cv_pos, cv_header, cv_leftover, cv_written, cv_cache, cv_buflen,
                   cv_joined, cv_recs, cv_stderr, cv_ret>>
    /\ UNCHANGED <<hdrVars, ebVars, sgVars, rgVars, dmVars, fdVars, anVars, cbVars, vaVars, igVars, rtVars, epVars, bfVars, txVars, mgVars>>

\* line 69: the header is accepted but open(output_path, "w") raises OSError
ConvOpenRaise ==
    /\ mn_pc = "converting"
    /\ cv_pc = "open"
    /\ parse_header(Slice(cv_file, 0, HEADER_SIZE)).ok
    /\ cv_ret' = Raise("OSError")
    /\ cv_pc' = "raised"
    /\ UNCHANGED <<cv_file, cv_pos, cv_header, cv_dst, cv_leftover, cv_written, cv_cache,
                   cv_buflen, cv_joined, cv_recs, cv_stderr>>
    /\ UNCHANGED <<hdrVars, ebVars, sgVars, rgVars, dmVars, fdVars, anVars, cbVars, vaVars, igVars, rtVars, mnVars, epVars, bfVars, txVars, mgVars>>

\* the header check failed and 0 is returned all the same
MainValueError_ExitZero ==
    /\ mn_pc = "converting"
    /\ cv_pc = "raised"
    /\ cv_ret.error # "OSError"
    /\ MainExit(0, << <<"stderr", "Invalid binary log file">>,
                      <<"stderr", "Ensure the input is a valid CAN binary log (.bin) file.">> >>)

\* lines 139-142: except ValueError
MainValueError ==
    /\ mn_pc = "converting"
    /\ cv_pc = "raised"
    /\ cv_ret.error # "OSError"
    /\ MainExit(1, << <<"stderr", "Invalid binary log file">>,
                      <<"stderr", "Ensure the input is a valid CAN binary log (.bin) file.">> >>)

\* lines 143-145: except Exception
MainException ==
    /\ mn_pc = "converting"
    /\ cv_pc = "raised"
    /\ cv_ret.error = "OSError"
    /\ MainExit(1, << <<"stderr", "Conversion failed">> >>)

\* lines 147-148: convert_file returned
MainReturn ==
    /\ mn_pc = "converting"
    /\ cv_pc = "returned"
    /\ MainExit(0, << <<"stdout", "Wrote", cv_ret.value>> >>)

MnNext ==
    \/ MainNotFound
    \/ MainConvert
    \/ ConvOpen
    \/ ConvHeaderRaise
    \/ ConvOpenRaise
    \/ \E n \in 1..(RECORD_SIZE * 3) : ConvReadChunk(n)
    \/ ConvEof
    \/ MainValueError
    \/ MainException
    \/ MainReturn

SpecMain == MnInit /\ [][MnNext]_vars

(***************************************************************************)
(* decode_with_obdb.py and validate_can.py: main.  analyze and validate    *)
(* run as modelled above; a main that returns without sys.exit leaves the  *)
(* process with exit code 0.                                               *)
(***************************************************************************)
\* the files tried: records, rows or lines, at most one of each
EntryLogs ==
    { f \in LogFiles : Len(f.bytes) <= COMPACT_SIZE /\ Len(f.rows) <= 1 /\ Len(f.lines) <= 1 }

\* the decoder's analyze is modelled on its .bin branch
EntryInputs ==
    { [tool |-> t, log |-> [exists |-> e] @@ f] :
        t \in {"decode", "validate"}, e \in BOOLEAN, f \in EntryLogs }

EpInit ==
    /\ \E i \in { x \in EntryInputs : x.tool = "decode" => validate_path(x.log) = "bin" } :
          /\ ep_tool = i.tool
          /\ ep_log = i.log
    /\ ep_argc \in {1, 2}
    /\ ep_pc = "start"
    /\ ep_exit = <<>>
    /\ HdrIdle
    /\ CvIdle
    /\ EbIdle
    /\ SgIdle
    /\ RgIdle
    /\ DmIdle
    /\ FdIdle
    /\ AnIdle
    /\ CbIdle
    /\ VaIdle
    /\ IgIdle
    /\ RtIdle
    /\ MnIdle
    /\ BfIdle
    /\ TxIdle
    /\ MgIdle

\* the process ends with code
EntryExit(code) ==
    /\ ep_pc' = "exited"
    /\ ep_exit' = code
    /\ UNCHANGED <<ep_tool, ep_argc, ep_log>>
    /\ UNCHANGED <<hdrVars, cvVars, ebVars, sgVars, rgVars, dmVars, fdVars, anVars, cbVars, vaVars, igVars, rtVars, mnVars, bfVars, txVars, mgVars>>

\* decode_with_obdb.py lines 479-486, validate_can.py lines 217-221:
\* no log file argument, usage and sys.exit(1)
EntryUsage ==
    /\ ep_pc = "start"
    /\ ep_argc < 2
    /\ EntryExit(1)

\* decode_with_obdb.py lines 488-505: OBDbDecoder(log_file, obdb_path) and
\* decoder.analyze() called
DecodeMainCall ==
    /\ ep_pc = "start"
    /\ ep_argc >= 2
    /\ ep_tool = "decode"
    /\ ep_pc' = "running"
    /\ an_suffix' = ep_log.suffix
    /\ an_exists' = ep_log.exists
    /\ an_bytes' = ep_log.bytes
    /\ an_pc' = "call"
    /\ UNCHANGED <<an_pos, messages_by_id, an_frames, an_stdout, an_ret>>
    /\ UNCHANGED <<ep_tool, ep_argc, ep_log, ep_exit>>
    /\ UNCHANGED <<hdrVars, cvVars, ebVars, sgVars, rgVars, dmVars, fdVars, cbVars, vaVars, igVars, rtVars, mnVars, bfVars, txVars, mgVars>>

\* decode_with_obdb.py lines 505-513: analyze returned True, the summary is
\* printed and main returns
DecodeMainReport ==
    /\ ep_pc = "running"
    /\ ep_tool = "decode"
    /\ an_pc = "returned"
    /\ an_ret = TRUE
    /\ EntryExit(0)

\* decode_with_obdb.py line 505: analyze returned False, the if is passed
\* over and main returns
DecodeMainEnd ==
    /\ ep_pc = "running"
    /\ ep_tool = "decode"
    /\ an_pc = "returned"
    /\ an_ret = FALSE
    /\ EntryExit(0)

\* validate_can.py lines 223-226: CANValidator(log_file) and
\* validator.validate() called
ValidateMainCall ==
    /\ ep_pc = "start"
    /\ ep_argc >= 2
    /\ ep_tool = "validate"
    /\ ep_pc' = "running"
    /\ va_file' = ep_log
    /\ va_pc' = "call"
    /\ messages' = <<>>
    /\ stats' = [total_lines |-> 0, valid_can_messages |-> 0, invalid_messages |-> 0,
                 unique_ids |-> {}, id_counts |-> <<>>, dlc_distribution |-> <<>>,
                 parse_errors |-> <<>>]
    /\ UNCHANGED <<va_pos, va_ret, va_stdout>>
    /\ UNCHANGED <<ep_tool, ep_argc, ep_log, ep_exit>>
    /\ UNCHANGED <<hdrVars, cvVars, ebVars, sgVars, rgVars, dmVars, fdVars, anVars, cbVars, igVars, rtVars, mnVars, bfVars, txVars, mgVars>>

\* validate_can.py lines 226-233: validate returned True, the report is
\* printed, sys.exit(0) if a message was valid and sys.exit(1) otherwise
ValidateMainReport ==
    /\ ep_pc = "running"
    /\ ep_tool = "validate"
    /\ va_pc = "returned"
    /\ va_ret = TRUE
    /\ EntryExit(IF stats.valid_can_messages > 0 THEN 0 ELSE 1)

\* validate_can.py line 226: validate returned False, the if is passed over
\* and main returns
ValidateMainEnd ==
    /\ ep_pc = "running"
    /\ ep_tool = "validate"
    /\ va_pc = "returned"
    /\ va_ret = FALSE
    /\ EntryExit(0)

EpNext ==
    \/ EntryUsage
    \/ DecodeMainCall
    \/ AnalyzeNotFound
    \/ AnalyzeBin
    \/ AnalyzeBinRecord
    \/ AnalyzeBinEnd
    \/ DecodeMainReport
    \/ DecodeMainEnd
    \/ ValidateMainCall
    \/ ValidateNotFound
    \/ ValidateOpen
    \/ ValidateBinRecord
    \/ ValidateCsvRow
    \/ ValidateTextLine
    \/ ValidateReturn
    \/ ValidateMainReport
    \/ ValidateMainEnd

SpecEntry == EpInit /\ [][EpNext]_vars

(***************************************************************************)
(* bin_to_csv.py: the lengths of chunk, data and leftover in the loop of   *)
(* convert_file, on streams of several chunks.  The bytes are handled as   *)
(* in ConvReadChunk; here only their counts are kept, so that reads of     *)
(* RECORD_SIZE * 1024 bytes are within reach.                              *)
(***************************************************************************)
\* line 77: the size asked of src.read
READ_SIZE == RECORD_SIZE * CHUNK_RECORDS

\* len(leftover + chunk)
DataLen(leftover_len, chunk_len) == leftover_len + chunk_len

\* the last whole record kept in the carry-over as well
LeftoverLen_KeepRecord(data_len) ==
    IF data_len >= RECORD_SIZE THEN (data_len % RECORD_SIZE) + RECORD_SIZE ELSE data_len

\* lines 82-84: record_count = len(data) // RECORD_SIZE,
\* end = record_count * RECORD_SIZE, len(data[end:])
LeftoverLen(data_len) ==
    LET record_count == data_len \div RECORD_SIZE
        end          == record_count * RECORD_SIZE
    IN  data_len - end

\* the longest stream tried, in chunks
MaxChunks == 2

\* stream lengths: whole chunks, and chunks followed by a byte, by a record
\* less a byte, by a record, and by two records less a byte
StreamSizes ==
    { k * READ_SIZE + e : k \in 0..MaxChunks, e \in {0, 1, 23, 24, 47} }

\* what one src.read(READ_SIZE) may return with left bytes to go: all that
\* is asked for or left, or less
ReadLens(left) ==
    { n \in {READ_SIZE, left, READ_SIZE - 1, READ_SIZE - 23, (READ_SIZE \div 2) + 5} :
        n >= 1 /\ n <= left /\ n <= READ_SIZE }

BfInit ==
    /\ bf_size \in StreamSizes
    /\ bf_pos = 0
    /\ bf_leftover = 0
    /\ bf_data = 0
    /\ bf_pc = "loop"
    /\ HdrIdle
    /\ CvIdle
    /\ EbIdle
    /\ SgIdle
    /\ RgIdle
    /\ DmIdle
    /\ FdIdle
    /\ AnIdle
    /\ CbIdle
    /\ VaIdle
    /\ IgIdle
    /\ RtIdle
    /\ MnIdle
    /\ EpIdle
    /\ TxIdle
    /\ MgIdle

\* lines 77-84: one iteration, the chunk of n bytes joined to the carry-over
BufferRead(n) ==
    /\ bf_pc = "loop"
    /\ n \in ReadLens(bf_size - bf_pos)
    /\ bf_data' = DataLen(bf_leftover, n)
    /\ bf_leftover' = LeftoverLen(DataLen(bf_leftover, n))
    /\ bf_pos' = bf_pos + n
    /\ UNCHANGED <<bf_size, bf_pc>>
    /\ UNCHANGED <<hdrVars, cvVars, ebVars, sgVars, rgVars, dmVars, fdVars, anVars, cbVars, vaVars, igVars, rtVars, mnVars, epVars, txVars, mgVars>>

\* lines 78-79: src.read returns b"", the loop is left
BufferEnd ==
    /\ bf_pc = "loop"
    /\ bf_pos = bf_size
    /\ bf_pc' = "done"
    /\ UNCHANGED <<bf_size, bf_pos, bf_leftover, bf_data>>
    /\ UNCHANGED <<hdrVars, cvVars, ebVars, sgVars, rgVars, dmVars, fdVars, anVars, cbVars, vaVars, igVars, rtVars, mnVars, epVars, txVars, mgVars>>

BfNext ==
    \/ \E n \in 1..READ_SIZE : BufferRead(n)
    \/ BufferEnd

SpecBuffer == BfInit /\ [][BfNext]_vars

(***************************************************************************)
(* The text branch of analyze (decode_with_obdb.py lines 346-364), on text *)
(* logs, on CSV files with the decoder's columns, and on the CSV file that *)
(* convert_file of bin_to_csv.py writes for a capture file.  The output of *)
(* the converter is taken character by character, as the decoder reads it. *)
(***************************************************************************)
\* the characters of the digits ds
DigitText(ds, base) ==
    [k \in 1..Len(ds) |-> IF base = 16 THEN HexDigit(ds[k]) ELSE DecDigit(ds[k])]

\* str(n), f"{n:0wX}" as characters, for a Big and for a small integer
StrText(a) == IF a = <<>> THEN <<"0">> ELSE DigitText(BigDigits(a, 10), 10)
StrIntText(n) == IF n = 0 THEN <<"0">> ELSE DigitText(IntDigits(n, 10), 10)
HexPadText(a, w) == DigitText(ZeroPad(BigDigits(a, 16), w), 16)
HexPadIntText(n, w) == DigitText(ZeroPad(IntDigits(n, 16), w), 16)

\* bin_to_csv.py line 19: CSV_HEADER, as the text written
CSV_HEADER_TEXT == <<"d", "a", "t", "e", "t", "i", "m", "e", ",", "t", "i", "m", "e", "s", "t", "a", "m", "p", "_", "u", "s", ",", "c", "a", "n", "_", "i", "d", ",", "d", "l", "c", ",", "b", "0", ",", "b", "1", ",", "b", "2", ",", "b", "3", ",", "b", "4", ",", "b", "5", ",", "b", "6", ",", "b", "7", "\n">>

\* format_datetime without the cache (C13): empty when the wall clock is
\* unknown, else the rendering of the second
datetime_text(header, timestamp_us) ==
    IF header.log_start_unix_us = <<>> THEN <<>>
    ELSE <<"@">> \o StrText(BigDiv(BigDiv(
             WallTime(header.log_start_unix_us, header.log_start_monotonic_us, timestamp_us),
             1000), 1000))

\* bin_to_csv.py lines 98-107: the fields of one line
csv_cells(header, r) ==
    <<datetime_text(header, r.timestamp_us), StrText(r.timestamp_us),
      HexPadText(r.can_id, 3), StrIntText(r.dlc)>>
    \o [k \in 1..Len(r.payload) |-> HexPadIntText(r.payload[k], 2)]

RECURSIVE JoinComma(_)
\* ",".join(fields)
JoinComma(fields) ==
    IF Len(fields) = 0 THEN <<>>
    ELSE IF Len(fields) = 1 THEN fields[1]
    ELSE fields[1] \o <<",">> \o JoinComma(Tail(fields))

\* bin_to_csv.py lines 80-89: the records of the stream that follows the header
capture_records(file) ==
    LET stream == Slice(file, HEADER_SIZE, Len(file))
    IN  [k \in 1..(Len(stream) \div RECORD_SIZE) |->
            unpack_record(RecordAt(stream, (k - 1) * RECORD_SIZE))]

\* csv.DictReader on a line of as many cells as CSV_HEADER has names
DictRow(cells) ==
    [name \in {CSV_HEADER[k] : k \in 1..Len(CSV_HEADER)} |->
        Text(cells[CHOOSE k \in 1..Len(CSV_HEADER) : CSV_HEADER[k] = name])]

\* the file convert_file writes for a capture file with a valid header, as
\* the decoder finds it: first line, DictReader rows, text lines
converted_file(file) ==
    LET header == parse_header(Slice(file, 0, HEADER_SIZE))
        recs   == capture_records(file)
    IN  [suffix     |-> <<".", "c", "s", "v">>,
         first_line |-> CSV_HEADER_TEXT,
         rows       |-> [k \in 1..Len(recs) |-> DictRow(csv_cells(header, recs[k]))],
         lines      |-> <<CSV_HEADER_TEXT>>
                        \o [k \in 1..Len(recs) |->
                               JoinComma(csv_cells(header, recs[k])) \o <<"\n">>]]

\* ---- inputs: valid capture files of 0, 1 and 2 records, one with a
\* truncated third record, with and without wall clock; CSV files with the
\* decoder's columns; text logs
PipeCaptures ==
    { h \o Slice(SampleStream(1, 3), 0, n) :
        h \in { SampleHeader(<<1, 0>>, <<0, 64, 30, 24, 36, 10, 6, 0>>),
                SampleHeader(<<1, 0>>, Repeat(0, 8)) },
        n \in {0, 24, 48, 60} }

PipeTexts ==
    { [suffix |-> f.suffix, first_line |-> f.first_line, rows |-> f.rows, lines |-> f.lines] :
        f \in { g \in LogFiles : validate_path(g) # "bin" /\ Len(g.rows) <= 1 } }

TxInit ==
    /\ \/ /\ tx_source \in { [kind |-> "capture", bytes |-> b] : b \in PipeCaptures }
          /\ tx_pc = "capture"
          /\ tx_file = <<>>
       \/ /\ tx_source \in { [kind |-> "text", file |-> f] : f \in PipeTexts }
          /\ tx_pc = "call"
          /\ tx_file = tx_source.file
    /\ tx_records = <<>>
    /\ tx_pos = 0
    /\ tx_path = ""
    /\ tx_frames = <<>>
    /\ HdrIdle
    /\ CvIdle
    /\ EbIdle
    /\ SgIdle
    /\ RgIdle
    /\ DmIdle
    /\ FdIdle
    /\ AnIdle
    /\ CbIdle
    /\ VaIdle
    /\ IgIdle
    /\ RtIdle
    /\ MnIdle
    /\ EpIdle
    /\ BfIdle
    /\ MgIdle

\* bin_to_csv.py convert_file, whole: the CSV file is written and becomes
\* the input of analyze
PipeConvert ==
    /\ tx_pc = "capture"
    /\ tx_file' = converted_file(tx_source.bytes)
    /\ tx_records' = capture_records(tx_source.bytes)
    /\ tx_pc' = "call"
    /\ UNCHANGED <<tx_source, tx_pos, tx_path, tx_frames>>
    /\ UNCHANGED <<anVars, hdrVars, cvVars, ebVars, sgVars, rgVars, dmVars, fdVars, cbVars, vaVars, igVars, rtVars, mnVars, epVars, bfVars, mgVars>>

\* line 352: first_line.lower().startswith('timestamp_us')
analyze_path(file) ==
    IF StartsWithText(Lower(file.first_line), TextTimestampUs) THEN "csv" ELSE "text"

\* lines 346-352: the file is opened and the first line looked at
AnalyzeOpenText ==
    /\ tx_pc = "call"
    /\ tx_pc' = analyze_path(tx_file)
    /\ tx_path' = analyze_path(tx_file)
    \* csv.DictReader takes the first line as the field names
    /\ tx_pos' = 0
    /\ UNCHANGED <<tx_source, tx_file, tx_records, tx_frames>>
    /\ UNCHANGED <<anVars, hdrVars, cvVars, ebVars, sgVars, rgVars, dmVars, fdVars, cbVars, vaVars, igVars, rtVars, mnVars, epVars, bfVars, mgVars>>

\* lines 353-357: one row of the DictReader
AnalyzeCsvRow ==
    /\ tx_pc = "csv"
    /\ tx_pos < Len(tx_file.rows)
    /\ LET msg == OBDbDecoder_parse_csv_row(tx_file.rows[tx_pos + 1])
       IN  IF msg.ok
           THEN /\ tx_frames' = Append(tx_frames, msg.msg)
                /\ messages_by_id' = AppendById(messages_by_id, msg.msg)
                /\ tx_pc' = tx_pc
           ELSE /\ UNCHANGED <<tx_frames, messages_by_id>>
                /\ tx_pc' = IF msg.raised THEN "raised" ELSE tx_pc
    /\ tx_pos' = tx_pos + 1
    /\ UNCHANGED <<tx_source, tx_file, tx_records, tx_path>>
    /\ UNCHANGED <<an_suffix, an_exists, an_bytes, an_pos, an_pc, an_frames, an_stdout, an_ret, hdrVars, cvVars, ebVars, sgVars, rgVars, dmVars, fdVars, cbVars, vaVars, igVars, rtVars, mnVars, epVars, bfVars, mgVars>>

\* lines 358-364: one line of a text log
AnalyzeTextLine ==
    /\ tx_pc = "text"
    /\ tx_pos < Len(tx_file.lines)
    /\ LET line == tx_file.lines[tx_pos + 1]
           msg  == OBDbDecoder_parse_can_message(line)
       IN  IF Contains(line, TextID) /\ msg.ok
           THEN /\ tx_frames' = Append(tx_frames, msg.msg)
                /\ messages_by_id' = AppendById(messages_by_id, msg.msg)
           ELSE UNCHANGED <<tx_frames, messages_by_id>>
    /\ tx_pos' = tx_pos + 1
    /\ UNCHANGED <<tx_source, tx_file, tx_records, tx_pc, tx_path>>
    /\ UNCHANGED <<an_suffix, an_exists, an_bytes, an_pos, an_pc, an_frames, an_stdout, an_ret, hdrVars, cvVars, ebVars, sgVars, rgVars, dmVars, fdVars, cbVars, vaVars, igVars, rtVars, mnVars, epVars, bfVars, mgVars>>

\* line 366: the rows or lines are exhausted, analyze returns True
AnalyzeTextEnd ==
    /\ \/ tx_pc = "csv" /\ tx_pos = Len(tx_file.rows)
       \/ tx_pc = "text" /\ tx_pos = Len(tx_file.lines)
    /\ tx_pc' = "returned"
    /\ UNCHANGED <<tx_source, tx_file, tx_records, tx_pos, tx_path, tx_frames>>
    /\ UNCHANGED <<anVars, hdrVars, cvVars, ebVars, sgVars, rgVars, dmVars, fdVars, cbVars, vaVars, igVars, rtVars, mnVars, epVars, bfVars, mgVars>>

TxNext ==
    \/ PipeConvert
    \/ AnalyzeOpenText
    \/ AnalyzeCsvRow
    \/ AnalyzeTextLine
    \/ AnalyzeTextEnd

SpecPipeline == TxInit /\ [][TxNext]_vars

(***************************************************************************)
(* merge_signal_definitions called again.  __init__ calls it once; the     *)
(* method takes both tiers from self and assigns self.signal_definitions,  *)
(* so it can be called again on the decoder at any time.                   *)
(***************************************************************************)
\* the largest number of repeated calls
MaxMerges == 2

\* lines 168-194 on a decoder whose registry is built: signal_definitions is
\* assigned a new dict of new lists; nothing is stored into manual_can_ids,
\* obdb_can_ids or their lists
MergeAgain ==
    /\ rg_pc = "ready"
    /\ mg_runs < MaxMerges
    /\ mg_before' = [manual |-> manual_can_ids, obdb |-> obdb_can_ids,
                     definitions |-> signal_definitions]
    /\ signal_definitions' = merge_signal_definitions(manual_can_ids, obdb_can_ids)
    /\ mg_runs' = mg_runs + 1
    /\ UNCHANGED <<rg_file, rg_pc, manual_can_ids, obdb_data, obdb_can_ids>>
    /\ UNCHANGED <<hdrVars, cvVars, ebVars, sgVars, dmVars, fdVars, anVars, cbVars, vaVars, igVars, rtVars, mnVars, epVars, bfVars, txVars>>

MgNext ==
    \/ LoadObdbMissing
    \/ LoadObdbError
    \/ LoadObdb
    \/ BuildObdbDefinitions
    \/ MergeSignalDefinitions
    \/ MergeAgain

SpecMerge == RgInit /\ [][MgNext]_vars

(***************************************************************************)
(* validate_can.py: validate on files long enough for more than ten parse  *)
(* errors.                                                                 *)
(***************************************************************************)
\* the largest number of failing lines or rows in a file
MaxInvalid == 12

\* a text log of k failing lines (dlc above 8), a boot message and j good lines
CounterText(k, j) ==
    LET lines == Repeat(Line3, k) \o <<Line5>> \o Repeat(Line1, j)
    IN  LogFile(<<".", "l", "o", "g">>, <<>>, lines[1], <<>>, lines)

\* a CSV file of k failing rows (dlc 'x') and j good rows
CounterCsv(k, j) ==
    LogFile(<<".", "c", "s", "v">>, <<>>, CsvHeaderLine,
            Repeat(ByteRow(<<"4", "0", "0", "0">>, <<"1", "D", "0">>, <<"x">>, <<"0", "1">>, <<"0", "2">>), k)
            \o Repeat(ByteRow(<<"1", "0", "0", "0">>, <<"1", "D", "0">>, <<"2">>, <<"0", "A">>, <<"F", "F">>), j),
            <<>>)

CounterLogs ==
    { CounterText(k, j) : k \in 0..MaxInvalid, j \in 0..2 }
    \cup { CounterCsv(k, j) : k \in {0, MaxInvalid - 1, MaxInvalid}, j \in 0..2 }
    \cup { LogFile(<<".", "b", "i", "n">>, bytes, <<>>, <<>>, <<>>) : bytes \in BinLogs }

VcInit ==
    /\ \E file \in CounterLogs, exists \in BOOLEAN :
          va_file = [exists |-> exists] @@ file
    /\ va_pos = 0
    /\ va_pc = "call"
    /\ messages = <<>>
    /\ stats = [total_lines |-> 0, valid_can_messages |-> 0, invalid_messages |-> 0,
                unique_ids |-> {}, id_counts |-> <<>>, dlc_distribution |-> <<>>,
                parse_errors |-> <<>>]
    /\ va_ret = <<>>
    /\ va_stdout = <<>>
    /\ HdrIdle
    /\ CvIdle
    /\ EbIdle
    /\ SgIdle
    /\ RgIdle
    /\ DmIdle
    /\ FdIdle
    /\ AnIdle
    /\ CbIdle
    /\ IgIdle
    /\ RtIdle
    /\ MnIdle
    /\ EpIdle
    /\ BfIdle
    /\ TxIdle
    /\ MgIdle

SpecCounters == VcInit /\ [][VaNext]_vars

(***************************************************************************)
(* C1, C2                                                                  *)
(***************************************************************************)
\* the length of the record stream: the bytes after the 64-byte header
C1_StreamLen == Len(cv_file) - 64

\* C1: convert_file on a record stream of L bytes writes and returns exactly
\* floor(L / 24) records; it prints no truncation warning when L is a
\* multiple of 24 and exactly one, carrying L mod 24, otherwise; no warning
\* is printed while records are still being written.
C1_RecordCountAndWarning ==
    /\ cv_pc = "loop" => cv_stderr = <<>>
    /\ cv_pc = "returned" =>
         /\ cv_ret.value = C1_StreamLen \div 24
         /\ Len(cv_dst) = 1 + (C1_StreamLen \div 24)
         /\ Len(cv_recs) = C1_StreamLen \div 24
         /\ cv_stderr = IF C1_StreamLen % 24 = 0 THEN <<>>
                        ELSE <<C1_StreamLen % 24>>

\* the truncated-stream scenario: 3 * 24 + 10 bytes, three records and one
\* warning reporting 10 bytes
C1_Witness ==
    /\ cv_pc = "returned"
    /\ C1_StreamLen = 3 * 24 + 10
    /\ cv_ret.value = 3
    /\ cv_stderr = <<10>>

\* an exact multiple of the record size ends without a warning
C1_WitnessExact ==
    /\ cv_pc = "returned"
    /\ C1_StreamLen = 48
    /\ cv_ret.value = 2
    /\ cv_stderr = <<>>

\* the k-th (1-based) 24-byte slice of the whole record stream
C2_WholeSlice(k) == SubSeq(cv_file, 64 + 24 * (k - 1) + 1, 64 + 24 * k)

\* C2: however the stream is cut into chunks, the records unpacked so far
\* are the slices of the whole stream at offsets 0, 24, 48, ..., one for
\* every whole record delivered so far, each once and in input order; the
\* rows written are the rows of these slices and the carry-over is the
\* delivered tail that follows the last whole record.
C2_ChunkIndependence ==
    cv_pc \in {"loop", "returned"} =>
        /\ Len(cv_recs) = (cv_pos - 64) \div 24
        /\ \A k \in 1..Len(cv_recs) : cv_recs[k] = C2_WholeSlice(k)
        /\ Len(cv_dst) = 1 + Len(cv_recs)
        /\ \A k \in 1..Len(cv_recs) :
              /\ cv_dst[k + 1][2] = Str(LittleEndian(SubSeq(C2_WholeSlice(k), 1, 8)))
              /\ cv_dst[k + 1][5] = HexPadInt(C2_WholeSlice(k)[15], 2)
        /\ cv_leftover = SubSeq(cv_file, 64 + 24 * Len(cv_recs) + 1, cv_pos)

\* a record that began in the carry-over of an earlier chunk was completed
\* by a later chunk, and the stream ends inside a record
C2_Witness ==
    /\ cv_pc = "returned"
    /\ cv_joined
    /\ Len(cv_recs) = 3
    /\ cv_buflen < 2 * 24
    /\ cv_leftover # <<>>

(***************************************************************************)
(* C4, C6, C7                                                              *)
(***************************************************************************)
\* the payload read as one big-endian integer B
C4_BigEndian(data) ==
    LET n == Len(data)
    IN  BigNorm([k \in 1..((n + 1) \div 2) |->
            data[n - 2 * (k - 1)]
            + (IF n - 2 * (k - 1) - 1 >= 1 THEN 256 * data[n - 2 * (k - 1) - 1] ELSE 0)])

\* floor(a / 2^k)
C4_ShiftRight(a, k) ==
    LET q == k \div 16
        r == k % 16
    IN  BigNorm([i \in 1..5 |->
            (Limb(a, i + q) \div Pow2(r)) + (Limb(a, i + q + 1) % Pow2(r)) * Pow2(16 - r)])

\* a mod 2^l
C4_ModPow2(a, l) ==
    BigNorm([i \in 1..5 |->
        IF i <= l \div 16 THEN Limb(a, i)
        ELSE IF i = (l \div 16) + 1 THEN Limb(a, i) % Pow2(l % 16)
        ELSE 0])

\* floor(B / 2^(8n - o - l)) mod 2^l
C4_MsbFirstSlice(data, o, l) ==
    C4_ModPow2(C4_ShiftRight(C4_BigEndian(data), 8 * Len(data) - o - l), l)

\* C4: for a payload of n bytes, an offset o and a length l >= 1 with
\* o + l <= 8n, unsigned extract_bits returns
\* floor(B / 2^(8n - o - l)) mod 2^l, B the payload as a big-endian integer.
C4_UnsignedIsMsbFirstSlice ==
    (eb_pc = "returned" /\ ~eb_signed /\ eb_bix + eb_length <= 8 * Len(eb_data)) =>
        eb_result = [kind |-> "int", neg |-> FALSE,
                     mag |-> C4_MsbFirstSlice(eb_data, eb_bix, eb_length)]

\* payload [0x1A, 0x2B], offset 4, length 8 gives 162
C4_Witness ==
    /\ eb_pc = "returned"
    /\ eb_data = <<26, 43>>
    /\ eb_bix = 4
    /\ eb_length = 8
    /\ ~eb_signed
    /\ eb_result = [kind |-> "int", neg |-> FALSE, mag |-> <<162>>]

\* C6: over an 8-byte payload, for every offset o in 0..63 and length l in
\* 1..64-o, unsigned extraction returns a value v with 0 <= v < 2^l.
C6_UnsignedRange ==
    (/\ eb_pc = "returned"
     /\ ~eb_signed
     /\ Len(eb_data) = 8
     /\ eb_bix \in 0..63
     /\ eb_length \in 1..(64 - eb_bix)) =>
        /\ eb_result.kind = "int"
        /\ ~eb_result.neg
        /\ BigLess(eb_result.mag, BigPow2(eb_length))

\* the largest value, 2^64 - 1, is returned for offset 0 and length 64
C6_Witness ==
    /\ eb_pc = "returned"
    /\ ~eb_signed
    /\ Len(eb_data) = 8
    /\ eb_bix = 0
    /\ eb_length = 64
    /\ eb_result.kind = "int"
    /\ eb_result.mag = <<65535, 65535, 65535, 65535>>

\* C7: over an 8-byte payload, for every offset o in 0..63 and length l in
\* 1..64-o, signed extraction returns u - 2^l when the unsigned slice u is
\* >= 2^(l-1) and u otherwise, a value in -2^(l-1) .. 2^(l-1) - 1.
C7_SignedTwosComplement ==
    (/\ eb_pc = "returned"
     /\ eb_signed
     /\ Len(eb_data) = 8
     /\ eb_bix \in 0..63
     /\ eb_length \in 1..(64 - eb_bix)) =>
        LET u    == C4_MsbFirstSlice(eb_data, eb_bix, eb_length)
            half == BigPow2(eb_length - 1)
        IN  /\ eb_result.kind = "int"
            /\ IF BigLess(u, half)
               THEN /\ ~eb_result.neg
                    /\ eb_result.mag = u
                    /\ BigLess(eb_result.mag, half)
               ELSE /\ eb_result.neg
                    /\ BigAdd(eb_result.mag, u) = BigPow2(eb_length)
                    /\ ~BigLess(half, eb_result.mag)

\* a one-bit signed field whose bit is set reads -1
C7_Witness ==
    /\ eb_pc = "returned"
    /\ eb_signed
    /\ Len(eb_data) = 8
    /\ eb_length = 1
    /\ eb_result = [kind |-> "int", neg |-> TRUE, mag |-> <<1>>]

\* the most negative 64-bit value, -2^63
C7_WitnessMin ==
    /\ eb_pc = "returned"
    /\ eb_signed
    /\ eb_bix = 0
    /\ eb_length = 64
    /\ eb_result = [kind |-> "int", neg |-> TRUE, mag |-> <<0, 0, 0, 32768>>]

(***************************************************************************)
(* C5, C8                                                                  *)
(***************************************************************************)
C5_Bix == IF "bix" \in DOMAIN sg_def THEN sg_def.bix ELSE 0
C5_Len == IF "len" \in DOMAIN sg_def THEN sg_def.len ELSE 8

\* C5: inside decode_signal, extract_bits yields no value exactly when
\* bit_offset + bit_length exceeds 8 times the number of payload bytes
\* present, and an integer in every other case; on a miss decode_signal
\* returns None (no DecodedSignal) and does not raise.
C5_MissExactlyWhenOutOfRange ==
    sg_pc \in {"returned", "raised"} =>
        /\ (sg_raw = None) <=> (C5_Bix + C5_Len > 8 * Len(sg_data))
        /\ sg_raw # None => sg_raw.kind = "int"
        /\ sg_raw = None => (sg_pc = "returned" /\ sg_result = None)

\* a frame cut to fewer than 8 bytes misses a field that an 8-byte payload
\* would hold; the definition's zero divisor is never reached
C5_Witness ==
    /\ sg_pc = "returned"
    /\ sg_result = None
    /\ Len(sg_data) \in 1..7
    /\ C5_Bix + C5_Len <= 64
    /\ "div" \in DOMAIN sg_def
    /\ sg_def.div.n = 0

\* a field that ends exactly at the last payload bit is extracted
C5_WitnessExactFit ==
    /\ sg_pc = "returned"
    /\ sg_result # None
    /\ Len(sg_data) \in 1..7
    /\ C5_Bix + C5_Len = 8 * Len(sg_data)

\* an unset (absent or None) parameter, as the neutral fraction
C8_Param(key, neutral) ==
    IF key \in DOMAIN sg_def /\ sg_def[key].kind # "None" THEN sg_def[key]
    ELSE [kind |-> "num", n |-> neutral, d |-> 1]

\* C8: the DecodedSignal carries the raw integer extracted, the
\* definition's unit and name, and value = ((raw + add) * mul) / div with an
\* unset add read as 0 and an unset mul or div as 1.  The equation is
\* stated cross-multiplied: value.n * (a.d * m.d * v.n)
\*                          = value.d * ((raw * a.d + a.n) * m.n * v.d).
C8_TransformOrder ==
    (sg_pc = "returned" /\ sg_result # None) =>
        LET a == C8_Param("add", 0)
            mu == C8_Param("mul", 1)
            v == C8_Param("div", 1)
            raw == IntOf(sg_raw)
        IN  /\ sg_result.kind = "signal"
            /\ sg_result.raw = sg_raw
            /\ sg_result.unit = (IF "unit" \in DOMAIN sg_def THEN sg_def.unit ELSE "unknown")
            /\ sg_result.name = sg_def.name
            /\ sg_result.value.d > 0
            /\ sg_result.value.n * (a.d * mu.d * v.n)
                 = sg_result.value.d * ((raw * a.d + a.n) * mu.n * v.d)

\* raw = 162, add = -40, mul and div unset: value 122, unit "celsius"
C8_Witness ==
    /\ sg_pc = "returned"
    /\ sg_result # None
    /\ sg_raw = [kind |-> "int", neg |-> FALSE, mag |-> <<162>>]
    /\ "add" \in DOMAIN sg_def
    /\ sg_def.add = [kind |-> "num", n |-> -40, d |-> 1]
    /\ "mul" \notin DOMAIN sg_def
    /\ "div" \notin DOMAIN sg_def
    /\ sg_result.value = [kind |-> "num", n |-> 122, d |-> 1]
    /\ sg_result.unit = "celsius"

\* all three parameters set, on a negative raw value
C8_WitnessAllSet ==
    /\ sg_pc = "returned"
    /\ sg_result # None
    /\ sg_raw.neg
    /\ {"add", "mul", "div"} \subseteq DOMAIN sg_def
    /\ sg_def.add.kind = "num"
    /\ sg_result.value.d > 1

(***************************************************************************)
(* C3                                                                      *)
(***************************************************************************)
\* the five rejection conditions, read directly off the input bytes
C3_HeaderRejected(d) ==
    \/ Len(d) < 64
    \/ \E i \in 1..7 : d[i] # MAGIC_PREFIX[i]
    \/ <<d[9], d[10]>> # <<1, 0>>
    \/ <<d[11], d[12]>> # <<64, 0>>
    \/ <<d[29], d[30], d[31], d[32]>> # <<24, 0, 0, 0>>

\* C3: parse_header raises exactly when the input is shorter than 64 bytes,
\* the first 7 magic bytes differ from the prefix, version # 1,
\* header_size # 64 or record_size # 24; otherwise it returns the three
\* fields whose little-endian encodings are the input bytes 12..19, 20..27
\* and 32..35, whatever the 8th magic byte and the reserved bytes are.
C3_ParseHeaderFailsIff ==
    /\ hdr_pc = "raised" => C3_HeaderRejected(hdr_data)
    /\ hdr_pc = "returned" =>
         /\ ~C3_HeaderRejected(hdr_data)
         /\ PackLittleEndian(hdr_result.log_start_unix_us, 8) = SubSeq(hdr_data, 13, 20)
         /\ PackLittleEndian(hdr_result.log_start_monotonic_us, 8) = SubSeq(hdr_data, 21, 28)
         /\ PackLittleEndian(hdr_result.flags, 4) = SubSeq(hdr_data, 33, 36)
         /\ Len(hdr_result.log_start_unix_us) <= 4
         /\ Len(hdr_result.log_start_monotonic_us) <= 4
         /\ Len(hdr_result.flags) <= 2

\* a header with a non-zero 8th magic byte, non-zero reserved bytes and
\* trailing bytes after the 64th is accepted
C3_Witness ==
    /\ hdr_pc = "returned"
    /\ hdr_data[8] # 0
    /\ hdr_data[64] # 0
    /\ Len(hdr_data) > 64
    /\ hdr_result.log_start_unix_us # <<>>
    /\ hdr_result.flags # <<>>


(***************************************************************************)
(* C9                                                                      *)
(***************************************************************************)
C9_Known == dm_can_id \in DOMAIN signal_definitions

\* the k signal definitions of the frame's identifier
C9_Defs == signal_definitions[dm_can_id].signals

\* the bit range of a definition fits the payload
C9_Fits(def) == Get(def, "bix", 0) + Get(def, "len", 8) <= 8 * Len(dm_data)

\* one DecodedSignal for each fitting definition, in definition order
RECURSIVE C9_Expected(_)
C9_Expected(defs) ==
    IF defs = <<>> THEN <<>>
    ELSE LET last == defs[Len(defs)]
             rest == C9_Expected(SubSeq(defs, 1, Len(defs) - 1))
         IN  IF C9_Fits(last) THEN Append(rest, decode_signal(dm_data, last)) ELSE rest

RECURSIVE C9_FittingNames(_)
C9_FittingNames(defs) ==
    IF defs = <<>> THEN <<>>
    ELSE LET last == defs[Len(defs)]
             rest == C9_FittingNames(SubSeq(defs, 1, Len(defs) - 1))
         IN  IF C9_Fits(last) THEN Append(rest, Get(last, "name", "Unknown")) ELSE rest

C10_InBoth == DOMAIN manual_can_ids \cap DOMAIN obdb_can_ids

C10_OnlyBuiltIn == DOMAIN manual_can_ids \ DOMAIN obdb_can_ids

C10_OnlyExternal == DOMAIN obdb_can_ids \ DOMAIN manual_can_ids

\* C10: once merge_signal_definitions has run, the registry's identifiers are
\* the union of the built-in and the external identifiers; an identifier of
\* both tiers has the built-in signals followed by the external signals
\* (as many as both lists together) and the combined provenance tag; an
\* identifier of one tier has that tier's signals and that tier's tag.
C10_MergeRule ==
    rg_pc = "ready" =>
        /\ DOMAIN signal_definitions = DOMAIN manual_can_ids \cup DOMAIN obdb_can_ids
        /\ \A cid \in C10_InBoth :
             /\ signal_definitions[cid].signals
                  = manual_can_ids[cid].signals \o obdb_can_ids[cid].signals
             /\ Len(signal_definitions[cid].signals)
                  = Len(manual_can_ids[cid].signals) + Len(obdb_can_ids[cid].signals)
             /\ signal_definitions[cid].source = "built-in+obdb"
             /\ signal_definitions[cid].source
                  = manual_can_ids[cid].source \o "+" \o obdb_can_ids[cid].source
        /\ \A cid \in C10_OnlyBuiltIn :
             /\ signal_definitions[cid].signals = manual_can_ids[cid].signals
             /\ signal_definitions[cid].source = "built-in"
        /\ \A cid \in C10_OnlyExternal :
             /\ signal_definitions[cid].signals = obdb_can_ids[cid].signals
             /\ signal_definitions[cid].source = "obdb"

\* a merged registry with an identifier of both tiers (0x0AA: 4 built-in
\* signals and 1 external), one only external and one only built-in
C10_Witness ==
    /\ rg_pc = "ready"
    /\ 170 \in C10_InBoth
    /\ Len(obdb_can_ids[170].signals) = 1
    /\ Len(signal_definitions[170].signals) = 5
    /\ C10_OnlyExternal # {}
    /\ C10_OnlyBuiltIn # {}


(***************************************************************************)
(* C11                                                                     *)
(***************************************************************************)
\* the commands of the loaded document
C11_Commands == IF NotDict(obdb_data) THEN <<>> ELSE Get(obdb_data, "commands", <<>>)

C11_Parseable(cmd) == Get(cmd, "rax", <<>>) # <<>> /\ IsBase16(Get(cmd, "rax", <<>>))

\* the signal is in the registry under the identifier
C11_Present(can_id, signal) ==
    /\ can_id \in DOMAIN signal_definitions
    /\ \E k \in 1..Len(signal_definitions[can_id].signals) :
         signal_definitions[can_id].signals[k] = signal

\* C11: once the registry is merged, every signal of every external command
\* with a parseable identifier is in the registry under that identifier, also
\* when two commands carry the same identifier.
C11_NoDefinitionDropped ==
    rg_pc = "ready" =>
        \A i \in 1..Len(C11_Commands) :
            C11_Parseable(C11_Commands[i]) =>
                \A j \in 1..Len(obdb_signals(C11_Commands[i])) :
                    C11_Present(IntBase16(C11_Commands[i].rax),
                                obdb_signals(C11_Commands[i])[j])


(***************************************************************************)
(* C12, C13                                                                *)
(***************************************************************************)
\* the wall time the claim gives for the last call
C12_Wall ==
    IF BigLess(fd_args.timestamp_us, fd_args.log_start_mono_us)
    THEN fd_args.log_start_unix_us
    ELSE BigAdd(fd_args.log_start_unix_us,
                BigSub(fd_args.timestamp_us, fd_args.log_start_mono_us))

\* floor(n / 1_000_000) in decimal: the digits of n without the last six
C12_Seconds(n) ==
    LET ds == BigDigits(n, 10)
    IN  IF Len(ds) <= 6 THEN "0" ELSE JoinDigits(SubSeq(ds, 1, Len(ds) - 6), 10)

\* C12: format_datetime returns the empty string when log_start_unix_us = 0;
\* otherwise the wall time is log_start_unix_us when timestamp_us is below
\* log_start_monotonic_us and log_start_unix_us + (timestamp_us -
\* log_start_monotonic_us) when it is not, the string returned is the
\* formatting of floor(wall_us / 1_000_000), and the wall time is never
\* below log_start_unix_us.
C12_TimestampResolver ==
    fd_calls > 0 =>
        IF fd_args.log_start_unix_us = <<>>
        THEN fd_ret = ""
        ELSE /\ fd_ret = "@" \o C12_Seconds(C12_Wall)
             /\ ~BigLess(C12_Wall, fd_args.log_start_unix_us)

\* a call with a known wall clock and a timestamp past the monotonic start
C12_Witness ==
    /\ fd_calls > 0
    /\ fd_args.log_start_unix_us # <<>>
    /\ BigLess(fd_args.log_start_mono_us, fd_args.timestamp_us)
    /\ fd_ret = "@1700000000"

\* a call with a timestamp before the monotonic start
C12_WitnessClamped ==
    /\ fd_calls > 0
    /\ fd_args.log_start_unix_us # <<>>
    /\ BigLess(fd_args.timestamp_us, fd_args.log_start_mono_us)
    /\ fd_ret # ""

\* the string a call with an empty cache returns for the arguments of the
\* last call
C13_Fresh ==
    format_datetime(fd_args.log_start_unix_us, fd_args.log_start_mono_us,
                    fd_args.timestamp_us, <<>>).str

\* C13: every call on a shared cache returns what a call with an empty cache
\* returns, and the cache maps each stored second to the formatting of that
\* second.
C13_Transparent ==
    /\ fd_calls > 0 => fd_ret = C13_Fresh
    /\ \A sec \in DOMAIN fd_cache : fd_cache[sec] = Strftime(sec)

\* C13: entries of the cache are only added, never changed or removed, and
\* a call with log_start_unix_us = 0 leaves the cache as it is; together
\* with the transparency above, in every state and step.
C13_MemoizationTransparent ==
    /\ []C13_Transparent
    /\ [][/\ \A sec \in DOMAIN fd_cache :
               sec \in DOMAIN fd_cache' /\ fd_cache'[sec] = fd_cache[sec]
          /\ (fd_calls' > fd_calls /\ fd_args'.log_start_unix_us = <<>>)
               => fd_cache' = fd_cache]_vars

\* a second call answered from the cache
C13_Witness ==
    /\ fd_calls = 2
    /\ fd_hit
    /\ fd_ret = "@1700000000"
    /\ Cardinality(DOMAIN fd_cache) = 1


(***************************************************************************)
(* C14, C15                                                                *)
(***************************************************************************)
\* uppercase hex of a small integer, without leading zeros
RECURSIVE C14_Hex(_)
C14_Hex(n) ==
    IF n < 16 THEN HexUpper[n + 1] ELSE C14_Hex(n \div 16) \o HexUpper[(n % 16) + 1]

\* the same padded with zeros to w digits
C14_HexPadded(n, w) ==
    LET digits == C14_Hex(n)
    IN  IF Len(digits) >= w THEN digits
        ELSE JoinDigits(Repeat(0, w - Len(digits)), 16) \o digits

\* the bytes a..b (0-based, both included) of a record as an integer below 2^31
C14_Int(rec, a, b) == SumSeq([i \in 1..(b - a + 1) |-> rec[a + i] * Pow2(8 * (i - 1))])

\* the row written for the k-th record unpacked
C14_Row(k) == cv_dst[k + 1]

\* the row shows the fields of the record read with can_id at bytes
\* first_id..last_id, then dlc, flags, the 8 payload bytes and reserved
C14_RowReadsLayout(row, rec, last_id) ==
    /\ row[2] = Str(LittleEndian(SubSeq(rec, 1, 8)))
    /\ row[3] = C14_HexPadded(C14_Int(rec, 8, last_id), 3)
    /\ row[4] = StrInt(rec[last_id + 2])
    /\ \A b \in 1..8 : row[4 + b] = C14_HexPadded(rec[last_id + 3 + b], 2)

\* C14 as stated: every record is read as timestamp_us:u64, can_id:u16,
\* dlc:u8, flags:u8, payload[8], reserved:u16.
C14_LayoutWithU16Id ==
    cv_pc \in {"loop", "returned"} =>
        \A k \in 1..Len(cv_recs) : C14_RowReadsLayout(C14_Row(k), cv_recs[k], 9)

\* C14, amended: a record is 24 bytes, little-endian, timestamp_us:u64,
\* can_id:u32, dlc:u8, flags:u8, payload[8], reserved:u16; the widths add up
\* to 24 and every field is read at the offset and width of this layout.
C14_LayoutWithU32Id ==
    /\ CalcSize(RECORD_FMT) = RECORD_SIZE
    /\ RECORD_SIZE = 8 + 4 + 1 + 1 + 8 + 2
    /\ cv_pc \in {"loop", "returned"} =>
         \A k \in 1..Len(cv_recs) :
            /\ Len(cv_recs[k]) = RECORD_SIZE
            /\ C14_RowReadsLayout(C14_Row(k), cv_recs[k], 11)
            /\ unpack_record(cv_recs[k]).flags = cv_recs[k][14]
            /\ unpack_record(cv_recs[k]).reserved = LittleEndian(SubSeq(cv_recs[k], 23, 24))

\* three records converted, the third with a can_id above 16 bits (0x104A7)
C14_Witness ==
    /\ cv_pc = "returned"
    /\ Len(cv_recs) = 3
    /\ C14_Row(1)[3] = "1D0"
    /\ C14_Row(1)[4] = "2"
    /\ C14_Row(3)[3] = "104A7"

\* the header of the input says the wall clock is unknown
C15_ClockUnknown == cv_header.log_start_unix_us = <<>>

\* the row has 12 fields: datetime, the timestamp and dlc in decimal, and
\* the 8 payload bytes as 2 uppercase hex digits each
C15_RowShape(row, rec) ==
    /\ Len(row) = 12
    /\ Len(CSV_HEADER) = 12
    /\ (row[1] = "") <=> C15_ClockUnknown
    /\ row[2] = Str(unpack_record(rec).timestamp_us)
    /\ row[4] = StrInt(unpack_record(rec).dlc)
    /\ \A b \in 1..8 :
         /\ Len(row[4 + b]) = 2
         /\ row[4 + b] = HexUpper[(unpack_record(rec).payload[b] \div 16) + 1]
                         \o HexUpper[(unpack_record(rec).payload[b] % 16) + 1]

\* C15 as stated: every data row has the 12 fields and its can_id is
\* exactly 3 uppercase hex digits, whatever can_id the record holds.
C15_RowWithThreeDigitId ==
    cv_pc \in {"loop", "returned"} =>
        \A k \in 1..Len(cv_recs) :
            /\ C15_RowShape(C14_Row(k), cv_recs[k])
            /\ Len(C14_Row(k)[3]) = 3

\* C15, amended: every data row has the 12 fields; can_id is uppercase hex
\* padded to at least 3 digits: exactly 3 for a can_id up to 0xFFF, and as
\* many as the value needs (up to 8) above.
C15_RowWithPaddedId ==
    cv_pc \in {"loop", "returned"} =>
        \A k \in 1..Len(cv_recs) :
            /\ C15_RowShape(C14_Row(k), cv_recs[k])
            /\ C14_Row(k)[3] = C14_HexPadded(C14_Int(cv_recs[k], 8, 11), 3)
            /\ Len(C14_Row(k)[3]) >= 3
            /\ Len(C14_Row(k)[3]) <= 8
            /\ (Len(C14_Row(k)[3]) = 3) <=> (C14_Int(cv_recs[k], 8, 11) <= 4095)

\* rows with and without a wall clock, a 3-digit and a 5-digit can_id, and
\* a dlc of 9 with all 8 bytes written
C15_Witness ==
    /\ cv_pc = "returned"
    /\ ~C15_ClockUnknown
    /\ Len(cv_recs) = 3
    /\ C14_Row(1) = <<"@1700000000", "500100", "1D0", "2",
                      "12", "34", "00", "00", "00", "00", "00", "00">>
    /\ C14_Row(3)[3] = "104A7"
    /\ C14_Row(3)[4] = "9"
    /\ C14_Row(3)[12] = "F8"


(***************************************************************************)
(* C16, C17                                                                *)
(***************************************************************************)
\* the first 64 bytes of the file are a valid Capture Container header
C16_HeaderValid == parse_header(Slice(an_bytes, 0, HEADER_SIZE)).ok

\* the frame of the k-th 24-byte record after the header
C16_CaptureFrame(k) ==
    LET r == unpack_record(SubSeq(an_bytes, 64 + 24 * (k - 1) + 1, 64 + 24 * k))
    IN  [id   |-> Limb(r.can_id, 1) + LimbBase * Limb(r.can_id, 2),
         dlc  |-> r.dlc,
         data |-> Slice(r.payload, 0, r.dlc)]

\* the frame of the k-th 19-byte record of the file
C16_CompactFrame(k) ==
    LET rec == SubSeq(an_bytes, 19 * (k - 1) + 1, 19 * k)
    IN  [id   |-> rec[9] + 256 * rec[10],
         dlc  |-> rec[11],
         data |-> Slice(SubSeq(rec, 12, 19), 0, rec[11])]

C17_Reports == SelectSeq(an_stdout, LAMBDA line : line.kind = "truncation")

\* C17: a compact stream of L bytes yields floor(L / 19) frames; with
\* R = L mod 19 trailing bytes, 0 < R < 19, one truncation condition carrying
\* R is reported, and none when R = 0.
C17_CompactTruncation ==
    (an_pc = "returned" /\ an_exists /\ ~C16_HeaderValid) =>
        /\ Len(an_frames) = Len(an_bytes) \div 19
        /\ C17_Reports = IF Len(an_bytes) % 19 = 0 THEN <<>>
                         ELSE <<[kind |-> "truncation", bytes |-> Len(an_bytes) % 19]>>


(***************************************************************************)
(* C18                                                                     *)
(***************************************************************************)
\* a parsed field, or zero when it did not parse or is out of lo..hi
C18_OrZero(parsed, lo, hi) ==
    IF parsed.ok /\ parsed.value >= lo /\ parsed.value <= hi THEN parsed.value ELSE 0

\* the one record the claim gives a row: every bad field encoded as zero
C18_Record(row) ==
    LET f == row_fields(row)
    IN  RecordPack(IF f.timestamp.ok /\ f.timestamp.value >= 0 THEN f.timestamp.value ELSE 0,
                   C18_OrZero(f.can_id, 0, 65535),
                   C18_OrZero(f.dlc, 0, 255),
                   [i \in 1..8 |-> C18_OrZero([ok |-> TRUE, value |-> row_byte(row, i - 1)], 0, 255)])

RECURSIVE C18_Records(_)
C18_Records(rows) ==
    IF rows = <<>> THEN <<>> ELSE C18_Record(Head(rows)) \o C18_Records(Tail(rows))

\* C18: convert never aborts, and after every row consumed the output holds
\* exactly one 19-byte record per row, a field that is non-hex, unparsable or
\* out of its range encoded as zero.
C18_NeverFailsOnBadField ==
    /\ cb_pc # "raised"
    /\ written = cb_i
    /\ f_out = C18_Records(SubSeq(cb_rows, 1, cb_i))


(***************************************************************************)
(* C19                                                                     *)
(***************************************************************************)
\* the file is read as CSV rows or as text lines
C19_Applies == va_file.exists /\ validate_path(va_file) \in {"csv", "text"}

C19_Items == IF validate_path(va_file) = "csv" THEN va_file.rows ELSE va_file.lines

\* row or line k yields a frame
C19_Yields(k) ==
    IF validate_path(va_file) = "csv"
    THEN CANValidator_parse_csv_row(va_file.rows[k]).ok
    ELSE CANValidator_parse_can_message(va_file.lines[k]).ok

\* the rows or lines among the first n that yield no frame
C19_Failed(n) == {k \in 1..n : ~C19_Yields(k)}

\* those of them that are CSV rows or lines holding both 'ID:' and 'DLC:'
C19_LookingLikeCan(n) ==
    {k \in C19_Failed(n) : validate_path(va_file) = "csv" \/ looks_like_can(va_file.lines[k])}

\* C19 as stated: the reader runs to the end of the input, every line or row
\* that yields no frame adds one to the invalid count and no frame, every
\* other line or row adds one frame.
C19_EveryFailureCounted ==
    C19_Applies =>
        /\ stats.invalid_messages = Cardinality(C19_Failed(va_pos))
        /\ Len(messages) = va_pos - Cardinality(C19_Failed(va_pos))
        /\ va_pc = "returned" => va_pos = Len(C19_Items)

\* C19, amended: the reader runs to the end of the input; a CSV row, or a
\* text line that holds both 'ID:' and 'DLC:', that yields no frame adds one
\* to the invalid count; any other text line that yields no frame is passed
\* over uncounted; no such row or line adds a frame, and every other line or
\* row adds one frame.
C19_CanLikeFailureCounted ==
    C19_Applies =>
        /\ stats.invalid_messages = Cardinality(C19_LookingLikeCan(va_pos))
        /\ Len(messages) = va_pos - Cardinality(C19_Failed(va_pos))
        /\ stats.valid_can_messages = Len(messages)
        /\ stats.total_lines = va_pos
        /\ va_pc = "returned" => va_pos = Len(C19_Items)

\* a text log read to the end: one line counted as invalid, one passed over
C19_Witness ==
    /\ va_pc = "returned"
    /\ va_file.exists
    /\ validate_path(va_file) = "text"
    /\ Cardinality(C19_Failed(va_pos)) = 2
    /\ stats.invalid_messages = 1
    /\ messages = <<>>


(***************************************************************************)
(* C20                                                                     *)
(***************************************************************************)
C20_WellFormed(msg) ==
    /\ msg.dlc >= 0
    /\ msg.dlc <= 8
    /\ Len(msg.data) = msg.dlc
    /\ \A i \in 1..Len(msg.data) : msg.data[i] \in 0..255

\* C20: every frame a parser of either tool yields (from a compact record, a
\* CSV row or a text line) has 0 <= dlc <= 8, exactly dlc payload bytes, and
\* every payload byte in 0..255.
C20_FrameWellFormed ==
    (ig_pc = "parsed" /\ ig_result.ok) => C20_WellFormed(ig_result.msg)


(***************************************************************************)
(* C21                                                                     *)
(***************************************************************************)
\* the bit range of a definition, with the defaults decode_signal reads
C21_InRange(sig) ==
    /\ Get(sig, "len", 8) >= 1
    /\ Get(sig, "len", 8) <= 64
    /\ Get(sig, "bix", 0) >= 0
    /\ Get(sig, "bix", 0) + Get(sig, "len", 8) <= 64

\* C21: every signal definition of the merged registry, built-in or
\* translated from the external file, has 1 <= bit_length <= 64,
\* bit_offset >= 0 and bit_offset + bit_length <= 64.
C21_RegistryBitRanges ==
    rg_pc = "ready" =>
        \A cid \in DOMAIN signal_definitions :
            \A k \in 1..Len(signal_definitions[cid].signals) :
                C21_InRange(signal_definitions[cid].signals[k])


(***************************************************************************)
(* C22                                                                     *)
(***************************************************************************)
\* C22: a valid header, capture record or compact record that is encoded
\* with the program's layout and decoded again comes back field for field:
\* the header is accepted with its two clocks and its flags; the capture
\* record with timestamp, can_id, dlc, flags and payload; the compact record
\* with timestamp, can_id, dlc and all 8 data bytes, from exactly 19 bytes.
C22_RoundTrip ==
    /\ (rt_pc = "decoded" /\ rt_value.kind = "header") =>
          /\ Len(rt_bytes) = 64
          /\ rt_decoded.ok
          /\ rt_decoded.log_start_unix_us = rt_value.log_start_unix_us
          /\ rt_decoded.log_start_monotonic_us = rt_value.log_start_monotonic_us
          /\ rt_decoded.flags = rt_value.flags
    /\ (rt_pc = "decoded" /\ rt_value.kind = "capture") =>
          /\ Len(rt_bytes) = 24
          /\ rt_decoded.timestamp_us = rt_value.timestamp_us
          /\ rt_decoded.can_id = rt_value.can_id
          /\ rt_decoded.dlc = rt_value.dlc
          /\ rt_decoded.flags = rt_value.flags
          /\ rt_decoded.payload = rt_value.payload
    /\ (rt_pc \in {"encoded", "decoded"} /\ rt_value.kind = "compact") =>
          Len(rt_bytes) = 19
    /\ (rt_pc = "decoded" /\ rt_value.kind = "compact") =>
          /\ rt_decoded.timestamp_us = rt_value.timestamp_us
          /\ rt_decoded.can_id = rt_value.can_id
          /\ rt_decoded.dlc = rt_value.dlc
          /\ rt_decoded.data_bytes = rt_value.data_bytes

\* a compact record with the largest timestamp, identifier and dlc came back
C22_Witness ==
    /\ rt_pc = "decoded"
    /\ rt_value.kind = "compact"
    /\ rt_value.timestamp_us = LittleEndian(Repeat(255, 8))
    /\ rt_value.can_id = 65535
    /\ rt_value.dlc = 255
    /\ rt_decoded.can_id = 65535


(***************************************************************************)
(* C23                                                                     *)
(***************************************************************************)
\* the header of the input file is one parse_header rejects
C23_HeaderInvalid ==
    \/ Len(mn_file) < 64
    \/ SubSeq(mn_file, 1, 7) # MAGIC_PREFIX
    \/ SubSeq(mn_file, 9, 10) # <<1, 0>>
    \/ SubSeq(mn_file, 11, 12) # <<64, 0>>
    \/ SubSeq(mn_file, 29, 32) # <<24, 0, 0, 0>>

\* C23: main of the capture-to-CSV converter returns 0 when the conversion
\* completes, with or without the warning about trailing bytes, and a
\* non-zero code when the input path is not an existing file or when the
\* header is rejected.
C23_ExitCode ==
    mn_pc = "exited" =>
        /\ cv_pc = "returned" => mn_ret = 0
        /\ ~mn_is_file => mn_ret # 0
        /\ (mn_is_file /\ C23_HeaderInvalid) => mn_ret # 0

\* a conversion that wrote two records and warned about trailing bytes
\* ended with exit code 0
C23_Witness ==
    /\ mn_pc = "exited"
    /\ cv_pc = "returned"
    /\ cv_stderr # <<>>
    /\ cv_written = 2
    /\ mn_ret = 0


(***************************************************************************)
(* C24                                                                     *)
(***************************************************************************)
\* the run printed the "File not found" error
C24_Reported ==
    \/ ep_tool = "decode" /\ \E k \in 1..Len(an_stdout) : an_stdout[k].kind = "not found"
    \/ ep_tool = "validate" /\ \E k \in 1..Len(va_stdout) : va_stdout[k].kind = "not found"

\* C24: when the log file named on the command line does not exist, the
\* entry point of the decoder and of the validator reports the error and
\* the process ends with a non-zero exit code.
C24_MissingInputExitsNonZero ==
    (ep_pc = "exited" /\ ep_argc >= 2 /\ ~ep_log.exists) =>
        /\ C24_Reported
        /\ ep_exit # 0


(***************************************************************************)
(* C25                                                                     *)
(***************************************************************************)
\* C25: at every point of the chunked record loop the carry-over holds
\* fewer than 24 bytes, and the working buffer, carry-over plus chunk, never
\* holds more than one chunk of 24 * 1024 bytes and 23 bytes, whatever the
\* file size and however the reads are split.
C25_BoundedBuffer ==
    /\ bf_leftover < 24
    /\ bf_data <= 24 * 1024 + 23

\* a full chunk was joined to a carry-over of 23 bytes
C25_Witness ==
    /\ bf_pc = "loop"
    /\ bf_data = 24 * 1024 + 23
    /\ bf_leftover = 23


(***************************************************************************)
(* C26                                                                     *)
(***************************************************************************)
\* the frame that corresponds to a capture record
C26_SameFrame(frame, r) ==
    /\ BigOf(frame.id) = r.can_id
    /\ frame.dlc = r.dlc
    /\ frame.data = Slice(r.payload, 0, r.dlc)

\* C26: the CSV file that the capture-to-CSV converter writes for a valid
\* capture file is recognised as CSV by the frame source, which yields one
\* frame per capture record, in order, with the same can_id, the same dlc
\* and the same first dlc payload bytes.
C26_CaptureCsvRoundTrip ==
    (tx_source.kind = "capture" /\ tx_pc = "returned") =>
        /\ tx_path = "csv"
        /\ Len(tx_frames) = Len(tx_records)
        /\ \A k \in 1..Len(tx_records) : C26_SameFrame(tx_frames[k], tx_records[k])


(***************************************************************************)
(* C27                                                                     *)
(***************************************************************************)
\* the first 64 bytes of the input are a header parse_header accepts
C27_HeaderValid ==
    /\ Len(cv_file) >= 64
    /\ SubSeq(cv_file, 1, 7) = MAGIC_PREFIX
    /\ SubSeq(cv_file, 9, 10) = <<1, 0>>
    /\ SubSeq(cv_file, 11, 12) = <<64, 0>>
    /\ SubSeq(cv_file, 29, 32) = <<24, 0, 0, 0>>

\* C27: convert_file reads and checks the 64-byte header once, before the
\* record loop; when the check fails it raises before the output file is
\* opened: no header row and no data row is written and the output file
\* holds what it held before.  Whatever is written follows a valid header.
C27_HeaderBeforeOutput ==
    /\ cv_pc = "raised" =>
          /\ ~C27_HeaderValid
          /\ cv_dst = <<"stale">>
          /\ cv_written = 0
    /\ cv_pc \in {"loop", "returned"} =>
          /\ C27_HeaderValid
          /\ cv_header = parse_header(SubSeq(cv_file, 1, 64))
          /\ cv_pos >= 64
          /\ cv_dst[1] = CSV_HEADER
    /\ cv_pc = "open" => cv_dst = <<"stale">>

\* a file with records behind a rejected header: convert_file raised
C27_Witness ==
    /\ cv_pc = "raised"
    /\ Len(cv_file) >= 64 + 24
    /\ cv_dst = <<"stale">>


(***************************************************************************)
(* C28                                                                     *)
(***************************************************************************)
\* the value of one byte field by the stated precedence: 0 for a missing or
\* empty field, else the hexadecimal value, else the decimal value, else 0
C28_Resolved(row, i) ==
    LET cell == Get(row, ByteColumn(i), None)
        text == IF cell.kind = "str" THEN Strip(cell.chars) ELSE <<>>
    IN  IF text = <<>> THEN 0
        ELSE IF ParsesInt(text, 16) THEN ParseInt(text, 16)
        ELSE IF ParsesInt(text, 10) THEN ParseInt(text, 10)
        ELSE 0

\* C28: parse_csv_row resolves each of the 8 byte fields of a row by that
\* precedence, so that every row whose can_id and dlc are read yields 8 byte
\* values, of which the first dlc are kept.
C28_ByteResolution ==
    (ig_pc = "parsed" /\ ig_input.format = "csv") =>
        /\ ~("raised" \in DOMAIN ig_result /\ ig_result.raised)
        /\ ig_result.ok =>
              ig_result.msg.data =
                  SliceTo([i \in 1..8 |-> C28_Resolved(ig_input.row, i - 1)],
                          ig_result.msg.dlc)


(***************************************************************************)
(* C29                                                                     *)
(***************************************************************************)
\* C29: merge_signal_definitions leaves the built-in tier and the external
\* tier as they were (identifiers and signal lists), and run again on the
\* same tiers it gives a registry equal to the one it gave before: no signal
\* list is appended a second time.
C29_MergeIdempotent ==
    /\ manual_can_ids = MANUAL_CAN_IDS
    /\ mg_runs > 0 =>
          /\ manual_can_ids = mg_before.manual
          /\ obdb_can_ids = mg_before.obdb
          /\ signal_definitions = mg_before.definitions
          /\ \A cid \in DOMAIN manual_can_ids \cap DOMAIN obdb_can_ids :
                Len(signal_definitions[cid].signals)
                    = Len(manual_can_ids[cid].signals) + Len(obdb_can_ids[cid].signals)

\* the merge was run again on tiers that share an identifier
C29_Witness ==
    /\ mg_runs = 2
    /\ DOMAIN manual_can_ids \cap DOMAIN obdb_can_ids # {}
    /\ signal_definitions = mg_before.definitions


(***************************************************************************)
(* C30                                                                     *)
(***************************************************************************)
RECURSIVE C30_SumOver(_, _)
\* the sum of the counts of counter over the keys
C30_SumOver(counter, keys) ==
    IF keys = {} THEN 0
    ELSE LET k == CHOOSE x \in keys : TRUE
         IN  counter[k] + C30_SumOver(counter, keys \ {k})

C30_Sum(counter) == C30_SumOver(counter, DOMAIN counter)

\* C30: after any sequence of records, rows or lines, valid_can_messages is
\* the number of stored messages, the sum of id_counts and the sum of
\* dlc_distribution; unique_ids is the set of keys of id_counts; valid and
\* invalid messages together are at most total_lines; parse_errors holds at
\* most 10 entries and no more than invalid_messages.
C30_CounterConsistency ==
    va_pc \in {"bin", "csv", "text", "returned"} =>
        /\ stats.valid_can_messages = Len(messages)
        /\ stats.valid_can_messages = C30_Sum(stats.id_counts)
        /\ stats.valid_can_messages = C30_Sum(stats.dlc_distribution)
        /\ stats.unique_ids = DOMAIN stats.id_counts
        /\ stats.valid_can_messages + stats.invalid_messages <= stats.total_lines
        /\ Len(stats.parse_errors) <= 10
        /\ Len(stats.parse_errors) <= stats.invalid_messages

\* a file with more than ten failing lines and two good ones was validated
C30_Witness ==
    /\ va_pc = "returned"
    /\ va_ret = TRUE
    /\ stats.invalid_messages > 10
    /\ Len(stats.parse_errors) = 10
    /\ stats.valid_can_messages = 2
    /\ stats.total_lines > stats.valid_can_messages + stats.invalid_messages

====
